---- MODULE Spec2Model ----
(***************************************************************************)
(* Model of the jet-veto-map validation scripts of cms-jme-scripts:        *)
(*   src/jvm/validate_json_json.py, src/jvm/validate_root_root.py,         *)
(*   src/jvm/validate_root_json.py.                                        *)
(* One run of a script is: main() loads the first source, loads the second *)
(* source, calls compare_histograms (X-edge check, Y-edge check, bin-count *)
(* check, per-cell loop, summary) and exits through sys.exit.              *)
(*                                                                         *)
(* The other scripts are modelled as runs of their own (ToolSpec):         *)
(*   src/jvm/remove_coordinates.py, src/jvm/remove_bpix_region.py,         *)
(*   src/jvm/plot_for_jerc_web.py, src/jvm/overlay_veto_maps_new.py,       *)
(*   src/jvm/root_to_json.py.                                              *)
(* ROOT bin edges of these runs are even integers, so that bin centres are *)
(* integers as well.                                                       *)
(*                                                                         *)
(* Numbers are integer-valued floats.  The default relative tolerance of   *)
(* numpy.allclose (rtol = 1e-05) is the ratio RtolNum / RtolDen, and the   *)
(* edge values are chosen so that no comparison sits on a rounding         *)
(* boundary of that product.                                               *)
(***************************************************************************)
EXTENDS Integers, Sequences, FiniteSets, TLC

VARIABLES script, old_src, new_src, tolerance, pc, old_hist, new_hist,
          idx, differences, reported, error, exit_code

\* state of the scripts that are not validation scripts (region removal,
\* mask subtraction, plotting, conversion)
VARIABLES step, input_file, output_file, regions, histos, hist, mask, modified,
          ix, iy, removed_bins, open_files, messages

vars == <<script, old_src, new_src, tolerance, pc, old_hist, new_hist,
          idx, differences, reported, error, exit_code,
          step, input_file, output_file, regions, histos, hist, mask, modified,
          ix, iy, removed_bins, open_files, messages>>

\* what a run of a validation script never touches
tool_vars == <<step, input_file, output_file, regions, histos, hist, mask, modified,
               ix, iy, removed_bins, open_files, messages>>

\* what a run of another script never touches
validation_vars == <<old_src, new_src, tolerance, pc, old_hist, new_hist,
                     idx, differences, reported>>

\* ------------------------------------------------------------------ bounds
MaxEdges == 3
MaxBins == 3
MaxVal == 1
MaxTol == 1

\* numpy.allclose default rtol = 1e-05, as a ratio
RtolNum == 1
RtolDen == 100000

Scripts == {"json_json", "root_root", "root_json"}

Tolerances == 0..MaxTol

\* Edge values: small ones, and two large neighbours for which the relative
\* term of numpy.allclose exceeds their distance.
XVals == {0, 250000, 250001}
YVals == 0..(MaxEdges - 1)
Vals == 0..MaxVal

\* ------------------------------------------------------------ input arrays
IsIncreasing(s) == \A i \in 1..(Len(s) - 1) : s[i] < s[i + 1]

\* strictly increasing edge arrays with lower edge 0
EdgeArrays(vals) ==
    UNION { {s \in [1..n -> vals] : s[1] = 0 /\ IsIncreasing(s)} : n \in 1..MaxEdges }

XEdgeArrays == EdgeArrays(XVals)
YEdgeArrays == EdgeArrays(YVals)

\* edge arrays that skip none of the values: the prefixes of the sorted values
SkipsNone(s, vals) ==
    \A i \in 1..(Len(s) - 1) : ~\E v \in vals : s[i] < v /\ v < s[i + 1]

XAxes == { s \in XEdgeArrays : SkipsNone(s, XVals) }
YAxes == { s \in YEdgeArrays : SkipsNone(s, YVals) }

ValueArrays == UNION { [1..n -> Vals] : n \in 0..MaxBins }
\* two value arrays of the same length
ValuePairs == UNION { [1..n -> Vals] \X [1..n -> Vals] : n \in 0..MaxBins }
UnitArrays == { [i \in 1..n |-> 1] : n \in 0..MaxBins }

Abs(v) == IF v < 0 THEN -v ELSE v

\* ------------------------------------------------------------- input files
\* A source file as the loaders see it: whether the file exists and parses,
\* whether the named histogram/map is in it, and the arrays stored for it.
Source(st, x, y, b) ==
    [status |-> st, x_edges |-> x, y_edges |-> y, bin_contents |-> b]

\* A ROOT 2D histogram has at least one bin per axis and one value per bin.
IsHistogram(x, y, b) ==
    /\ Len(x) >= 2
    /\ Len(y) >= 2
    /\ Len(b) = (Len(x) - 1) * (Len(y) - 1)

\* A JSON map stores edges and content as independent lists.
OkSources(kind, contents) ==
    { s \in { Source("ok", x, y, b) :
                 x \in XEdgeArrays, y \in YEdgeArrays, b \in contents } :
        kind = "json" \/ IsHistogram(s.x_edges, s.y_edges, s.bin_contents) }

FailStatuses(kind) ==
    IF kind = "json" THEN {"nofile", "nomap", "badformat"} ELSE {"nofile", "nomap"}

\* a JSON entry with the requested key whose value is not a multibinning
\* node (the arrays are what a loader ignoring the nodetype would read)
NotMultibinning == Source("not_multibinning", <<0, 1>>, <<0, 1>>, <<1>>)

\* Sources that make a loader take one of its error branches: missing file,
\* missing map, unparsable document, and (JSON only) empty lists.
OddSources(kind) ==
    { Source(st, <<>>, <<>>, <<>>) : st \in FailStatuses(kind) }
    \cup (IF kind = "json"
          THEN { NotMultibinning,
                 Source("ok", <<>>, <<0, 1>>, <<1>>),
                 Source("ok", <<0, 1>>, <<>>, <<1>>),
                 Source("ok", <<0, 1>>, <<0, 1>>, <<>>) }
          ELSE {})

RefSource == Source("ok", <<0, 1>>, <<0, 1>>, <<1>>)

FirstKind(s) == IF s = "json_json" THEN "json" ELSE "root"
SecondKind(s) == IF s = "root_root" THEN "root" ELSE "json"

\* Runs in which a load goes wrong (or a JSON map is empty).
LoadCases(k1, k2) ==
    (OddSources(k1) \X {RefSource})
    \cup ({RefSource} \X OddSources(k2))
    \cup (OddSources(k1) \X OddSources(k2))

\* Runs that vary the edge arrays of both sources; every bin holds 1.
EdgeCases(k1, k2) == OkSources(k1, UnitArrays) \X OkSources(k2, UnitArrays)

\* Runs that vary the bin values of both sources over common axes.
CellCases(k1, k2) ==
    { <<Source("ok", x, y, ab[1]), Source("ok", x, y, ab[2])>> :
        x \in XAxes, y \in YAxes, ab \in ValuePairs }
    \cap (OkSources(k1, ValueArrays) \X OkSources(k2, ValueArrays))

InputCases(s) ==
    LoadCases(FirstKind(s), SecondKind(s))
    \cup EdgeCases(FirstKind(s), SecondKind(s))
    \cup CellCases(FirstKind(s), SecondKind(s))

\* ----------------------------------------------------------------- loaders
NoHist == [loaded |-> FALSE, x_edges |-> <<>>, y_edges |-> <<>>, bin_contents |-> <<>>]

Hist(x, y, b) == [loaded |-> TRUE, x_edges |-> x, y_edges |-> y, bin_contents |-> b]

\* validate_root_root.load_root_histogram / validate_root_json.load_root_histogram:
\* any exception (missing file, missing key) is logged and ends in sys.exit(1).
load_root_histogram(src) ==
    IF src.status = "ok"
    THEN Hist(src.x_edges, src.y_edges, src.bin_contents)
    ELSE NoHist

\* variant: the nodetype of the matching entry is not looked at
load_json_map_strict_any_nodetype(src) ==
    IF /\ src.status \in {"ok", "not_multibinning"}
       /\ Len(src.x_edges) # 0
       /\ Len(src.y_edges) # 0
       /\ Len(src.bin_contents) # 0
    THEN Hist(src.x_edges, src.y_edges, src.bin_contents)
    ELSE NoHist

\* validate_json_json.load_json_map: also rejects empty edge or content lists.
load_json_map_strict(src) ==
    IF /\ src.status = "ok"
       /\ Len(src.x_edges) # 0
       /\ Len(src.y_edges) # 0
       /\ Len(src.bin_contents) # 0
    THEN Hist(src.x_edges, src.y_edges, src.bin_contents)
    ELSE NoHist

\* validate_root_json.load_json_map: no emptiness validation.
load_json_map(src) ==
    IF src.status = "ok"
    THEN Hist(src.x_edges, src.y_edges, src.bin_contents)
    ELSE NoHist

LoadFirst(s, src) ==
    IF s = "json_json" THEN load_json_map_strict(src) ELSE load_root_histogram(src)

LoadSecond(s, src) ==
    IF s = "json_json" THEN load_json_map_strict(src)
    ELSE IF s = "root_root" THEN load_root_histogram(src)
    ELSE load_json_map(src)

\* ------------------------------------------------------- compare_histograms
\* numpy.isclose on finite scalars: abs(a - b) <= atol + rtol * abs(b).
\* a, b and atol are integers, so the comparison with the real product
\* rtol * abs(b) is the comparison with its integer part.
isclose(a, b, atol) ==
    Abs(a - b) - atol <= (RtolNum * Abs(b)) \div RtolDen

\* numpy broadcasting of two 1-D arrays
Broadcastable(m, n) == m = n \/ m = 1 \/ n = 1
BroadcastLen(m, n) == IF m = 1 THEN n ELSE m
At(s, i) == IF Len(s) = 1 THEN s[1] ELSE s[i]

\* np.allclose(a, b, atol=tolerance): "ValueError" when the shapes cannot be
\* broadcast, otherwise whether every broadcast pair is close.
allclose(a, b, atol) ==
    IF ~Broadcastable(Len(a), Len(b)) THEN "ValueError"
    ELSE IF \A i \in 1..BroadcastLen(Len(a), Len(b)) :
                isclose(At(a, i), At(b, i), atol)
         THEN "True"
         ELSE "False"

\* variant: the magnitude of the difference is logged
cell_diff_abs(s, old_val, new_val) == Abs(new_val - old_val)

\* diff of one cell: new - old in validate_json_json and validate_root_root,
\* root - json (first minus second) in validate_root_json.
cell_diff(s, old_val, new_val) ==
    IF s = "root_json" THEN old_val - new_val ELSE new_val - old_val

\* variant: non-strict comparison
exceeds_nonstrict(diff, tol) == Abs(diff) >= tol

\* variant: the sign of the difference is kept
exceeds_signed(diff, tol) == diff > tol

\* if abs(diff) > tolerance
exceeds(diff, tol) == Abs(diff) > tol

\* num_phi_bins = len(y_edges_old) - 1
num_phi_bins(y_edges) == Len(y_edges) - 1

\* variant: remainder instead of quotient
eta_bin_by_remainder(i, nphi) == (i % nphi) + 1

\* eta_bin = (idx // num_phi_bins) + 1 ; phi_bin = (idx % num_phi_bins) + 1
eta_bin(i, nphi) == (i \div nphi) + 1
phi_bin(i, nphi) == (i % nphi) + 1

\* the logged warning for one differing bin
Report(s, i, nphi, old_val, new_val) ==
    [eta_bin |-> eta_bin(i, nphi), phi_bin |-> phi_bin(i, nphi),
     old_val |-> old_val, new_val |-> new_val,
     diff |-> cell_diff(s, old_val, new_val)]

\* compare_histograms as a function of its arguments: the outcome (returned,
\* or the error that ended the process), the count and the logged bins.
Failed(msg, n, reps) == [outcome |-> msg, differences |-> n, reported |-> reps]

RECURSIVE CompareLoop(_, _, _, _, _, _, _)
CompareLoop(s, old, new, tol, i, n, reps) ==
    IF i = Len(old.bin_contents)
    THEN [outcome |-> "returned", differences |-> n, reported |-> reps]
    ELSE IF ~exceeds(cell_diff(s, old.bin_contents[i + 1], new.bin_contents[i + 1]), tol)
    THEN CompareLoop(s, old, new, tol, i + 1, n, reps)
    ELSE IF num_phi_bins(old.y_edges) = 0
    THEN Failed("ZeroDivisionError", n + 1, reps)
    ELSE CompareLoop(s, old, new, tol, i + 1, n + 1,
                     Append(reps, Report(s, i, num_phi_bins(old.y_edges),
                                         old.bin_contents[i + 1],
                                         new.bin_contents[i + 1])))

compare_histograms(s, old, new, tol) ==
    IF allclose(old.x_edges, new.x_edges, tol) = "ValueError"
    THEN Failed("x_edges_ValueError", 0, <<>>)
    ELSE IF allclose(old.x_edges, new.x_edges, tol) = "False"
    THEN Failed("x_edges_mismatch", 0, <<>>)
    ELSE IF allclose(old.y_edges, new.y_edges, tol) = "ValueError"
    THEN Failed("y_edges_ValueError", 0, <<>>)
    ELSE IF allclose(old.y_edges, new.y_edges, tol) = "False"
    THEN Failed("y_edges_mismatch", 0, <<>>)
    ELSE IF Len(new.bin_contents) # Len(old.bin_contents)
    THEN Failed("num_bins_mismatch", 0, <<>>)
    ELSE CompareLoop(s, old, new, tol, 0, 0, <<>>)

\* ------------------------------- compare_histograms, one script at a time
\* validate_json_json.compare_histograms, lines 152-171: the loop from idx
\* on, with diff = new_val - old_val, and the return of the count
RECURSIVE json_json_loop(_, _, _, _, _, _, _)
json_json_loop(bin_contents_old, bin_contents_new, tol, nphi, i, n, logged) ==
    IF i = Len(bin_contents_old)
    THEN [outcome |-> "returned", differences |-> n, reported |-> logged]
    ELSE LET old_val == bin_contents_old[i + 1]
             new_val == bin_contents_new[i + 1]
             diff == new_val - old_val
         IN IF ~(Abs(diff) > tol)
            THEN json_json_loop(bin_contents_old, bin_contents_new, tol, nphi,
                                i + 1, n, logged)
            ELSE IF nphi = 0
            THEN [outcome |-> "ZeroDivisionError", differences |-> n + 1,
                  reported |-> logged]
            ELSE json_json_loop(bin_contents_old, bin_contents_new, tol, nphi,
                                i + 1, n + 1,
                                Append(logged,
                                       [eta_bin |-> (i \div nphi) + 1,
                                        phi_bin |-> (i % nphi) + 1,
                                        old_val |-> old_val, new_val |-> new_val,
                                        diff |-> diff]))

\* validate_json_json.compare_histograms, lines 126-150: the checks of the
\* X edges, of the Y edges and of the number of bins, each ending in
\* sys.exit(1); num_phi_bins = len(y_edges_old) - 1
compare_histograms_json_json(old, new, tol) ==
    LET x_close == allclose(old.x_edges, new.x_edges, tol)
        y_close == allclose(old.y_edges, new.y_edges, tol)
        num_bins_old == Len(old.bin_contents)
        num_bins_new == Len(new.bin_contents)
    IN IF x_close = "ValueError"
       THEN [outcome |-> "x_edges_ValueError", differences |-> 0, reported |-> <<>>]
       ELSE IF x_close = "False"
       THEN [outcome |-> "x_edges_mismatch", differences |-> 0, reported |-> <<>>]
       ELSE IF y_close = "ValueError"
       THEN [outcome |-> "y_edges_ValueError", differences |-> 0, reported |-> <<>>]
       ELSE IF y_close = "False"
       THEN [outcome |-> "y_edges_mismatch", differences |-> 0, reported |-> <<>>]
       ELSE IF num_bins_new # num_bins_old
       THEN [outcome |-> "num_bins_mismatch", differences |-> 0, reported |-> <<>>]
       ELSE json_json_loop(old.bin_contents, new.bin_contents, tol,
                           Len(old.y_edges) - 1, 0, 0, <<>>)

\* validate_root_root.compare_histograms, lines 100-119: the loop from idx
\* on, with diff = new_val - old_val, and the return of the count
RECURSIVE root_root_loop(_, _, _, _, _, _, _)
root_root_loop(bin_contents_old, bin_contents_new, tol, nphi, i, n, logged) ==
    IF i = Len(bin_contents_old)
    THEN [outcome |-> "returned", differences |-> n, reported |-> logged]
    ELSE LET old_val == bin_contents_old[i + 1]
             new_val == bin_contents_new[i + 1]
             diff == new_val - old_val
         IN IF ~(Abs(diff) > tol)
            THEN root_root_loop(bin_contents_old, bin_contents_new, tol, nphi,
                                i + 1, n, logged)
            ELSE IF nphi = 0
            THEN [outcome |-> "ZeroDivisionError", differences |-> n + 1,
                  reported |-> logged]
            ELSE root_root_loop(bin_contents_old, bin_contents_new, tol, nphi,
                                i + 1, n + 1,
                                Append(logged,
                                       [eta_bin |-> (i \div nphi) + 1,
                                        phi_bin |-> (i % nphi) + 1,
                                        old_val |-> old_val, new_val |-> new_val,
                                        diff |-> diff]))

\* validate_root_root.compare_histograms, lines 74-98: the checks of the X
\* edges, of the Y edges and of the number of bins, each ending in
\* sys.exit(1); num_phi_bins = len(y_edges_old) - 1
compare_histograms_root_root(old, new, tol) ==
    LET x_close == allclose(old.x_edges, new.x_edges, tol)
        y_close == allclose(old.y_edges, new.y_edges, tol)
        num_bins_old == Len(old.bin_contents)
        num_bins_new == Len(new.bin_contents)
    IN IF x_close = "ValueError"
       THEN [outcome |-> "x_edges_ValueError", differences |-> 0, reported |-> <<>>]
       ELSE IF x_close = "False"
       THEN [outcome |-> "x_edges_mismatch", differences |-> 0, reported |-> <<>>]
       ELSE IF y_close = "ValueError"
       THEN [outcome |-> "y_edges_ValueError", differences |-> 0, reported |-> <<>>]
       ELSE IF y_close = "False"
       THEN [outcome |-> "y_edges_mismatch", differences |-> 0, reported |-> <<>>]
       ELSE IF num_bins_new # num_bins_old
       THEN [outcome |-> "num_bins_mismatch", differences |-> 0, reported |-> <<>>]
       ELSE root_root_loop(old.bin_contents, new.bin_contents, tol,
                           Len(old.y_edges) - 1, 0, 0, <<>>)

\* validate_root_json.compare_histograms, lines 178-196: the loop from idx
\* on, with diff = root_val - json_val, and the return of the count
RECURSIVE root_json_loop(_, _, _, _, _, _, _)
root_json_loop(bin_contents_root, bin_contents_json, tol, nphi, i, n, logged) ==
    IF i = Len(bin_contents_root)
    THEN [outcome |-> "returned", differences |-> n, reported |-> logged]
    ELSE LET root_val == bin_contents_root[i + 1]
             json_val == bin_contents_json[i + 1]
             diff == root_val - json_val
         IN IF ~(Abs(diff) > tol)
            THEN root_json_loop(bin_contents_root, bin_contents_json, tol, nphi,
                                i + 1, n, logged)
            ELSE IF nphi = 0
            THEN [outcome |-> "ZeroDivisionError", differences |-> n + 1,
                  reported |-> logged]
            ELSE root_json_loop(bin_contents_root, bin_contents_json, tol, nphi,
                                i + 1, n + 1,
                                Append(logged,
                                       [eta_bin |-> (i \div nphi) + 1,
                                        phi_bin |-> (i % nphi) + 1,
                                        old_val |-> root_val, new_val |-> json_val,
                                        diff |-> diff]))

\* variant: the Y edges are not checked
compare_histograms_root_json_no_y_check(root, json, tol) ==
    LET x_close == allclose(root.x_edges, json.x_edges, tol)
        num_bins == Len(root.bin_contents)
    IN IF x_close = "ValueError"
       THEN [outcome |-> "x_edges_ValueError", differences |-> 0, reported |-> <<>>]
       ELSE IF x_close = "False"
       THEN [outcome |-> "x_edges_mismatch", differences |-> 0, reported |-> <<>>]
       ELSE IF Len(json.bin_contents) # num_bins
       THEN [outcome |-> "num_bins_mismatch", differences |-> 0, reported |-> <<>>]
       ELSE root_json_loop(root.bin_contents, json.bin_contents, tol,
                           Len(root.y_edges) - 1, 0, 0, <<>>)

\* validate_root_json.compare_histograms, lines 154-176: the checks of the
\* X edges, of the Y edges and of the number of bins, each ending in
\* sys.exit(1); num_phi_bins = len(y_edges_root) - 1
compare_histograms_root_json(root, json, tol) ==
    LET x_close == allclose(root.x_edges, json.x_edges, tol)
        y_close == allclose(root.y_edges, json.y_edges, tol)
        num_bins == Len(root.bin_contents)
    IN IF x_close = "ValueError"
       THEN [outcome |-> "x_edges_ValueError", differences |-> 0, reported |-> <<>>]
       ELSE IF x_close = "False"
       THEN [outcome |-> "x_edges_mismatch", differences |-> 0, reported |-> <<>>]
       ELSE IF y_close = "ValueError"
       THEN [outcome |-> "y_edges_ValueError", differences |-> 0, reported |-> <<>>]
       ELSE IF y_close = "False"
       THEN [outcome |-> "y_edges_mismatch", differences |-> 0, reported |-> <<>>]
       ELSE IF Len(json.bin_contents) # num_bins
       THEN [outcome |-> "num_bins_mismatch", differences |-> 0, reported |-> <<>>]
       ELSE root_json_loop(root.bin_contents, json.bin_contents, tol,
                           Len(root.y_edges) - 1, 0, 0, <<>>)

\* ------------------------------------------- state of the other scripts
\* a ROOT 2D histogram in memory: bin edges and the content of bin (ix, iy)
TH2(xe, ye, c) == [x_edges |-> xe, y_edges |-> ye, content |-> c]
NoTH2 == TH2(<<>>, <<>>, <<>>)

\* a ROOT file on disk: whether it can be opened and the histograms that
\* Get(name) finds in it
RootFile(st, objs) == [status |-> st, keys |-> objs]
NoFile == RootFile("nofile", <<>>)

\* an object stored in a ROOT file: its class, its own name (GetName), its
\* title and, for a histogram, its binning and content
TObject(cls, oname, title, h) == [cls |-> cls, name |-> oname, title |-> title, h |-> h]

\* a 2D histogram stored under its own name
TH2D(oname, h) == TObject("TH2D", oname, oname, h)

\* a key of a ROOT file: the name and the cycle of the key, and the object
\* that ReadObj gives
TKey(kname, cycle, obj) == [name |-> kname, cycle |-> cycle, obj |-> obj]

\* the positions of the keys of a name in a list of keys
KeysNamed(list, kname) == { k \in 1..Len(list) : list[k].name = kname }

\* TDirectory::Get(name): the object of the key of that name with the
\* highest cycle
Get(list, kname) ==
    LET top == CHOOSE k \in KeysNamed(list, kname) :
                   \A j \in KeysNamed(list, kname) : list[j].cycle <= list[k].cycle
    IN list[top].obj

\* obj.InheritsFrom("TH1") or obj.InheritsFrom("TH2") or obj.InheritsFrom("TH3")
InheritsFromTH1(obj) == obj.cls \in {"TH1D", "TH2D", "TH3D"}

\* a readable ROOT file with a list of keys (GetListOfKeys): keys holds the
\* histogram that Get(name) finds for every name of a histogram
RootDir(list) ==
    [status |-> "ok", list |-> list,
     keys |-> [n \in { list[k].name : k \in { j \in 1..Len(list) :
                                                 InheritsFromTH1(Get(list, list[j].name)) } }
                  |-> Get(list, n).h]]

\* TObject::Write(name) into a directory: a new key of that name, with the
\* cycle after the highest one of the name, put ahead of the keys of the
\* name (at the end when there is none)
WriteKey(list, kname, obj) ==
    IF KeysNamed(list, kname) = {}
    THEN Append(list, TKey(kname, 1, obj))
    ELSE LET first == CHOOSE k \in KeysNamed(list, kname) :
                          \A j \in KeysNamed(list, kname) : k <= j
             cycle == 1 + Len(SelectSeq(list, LAMBDA key : key.name = kname))
         IN SubSeq(list, 1, first - 1)
               \o <<TKey(kname, cycle, obj)>>
               \o SubSeq(list, first, Len(list))

\* the output path: whether a file can be created there, whether one has
\* been created by this run, and the list of keys of the file
OutFile(ok, made, objs) == [openable |-> ok, created |-> made, keys |-> objs]

\* in a run of a validation script none of these is used
ToolIdle ==
    /\ step = "off"
    /\ input_file = NoFile
    /\ output_file = OutFile(FALSE, FALSE, <<>>)
    /\ regions = <<>>
    /\ histos = <<>>
    /\ hist = NoTH2
    /\ mask = NoTH2
    /\ modified = NoTH2
    /\ ix = 0
    /\ iy = 0
    /\ removed_bins = 0
    /\ open_files = {}
    /\ messages = {}

\* --------------------------------------------------------------- the run
NoExit == -1

Init ==
    /\ script \in Scripts
    /\ \E pair \in InputCases(script) : old_src = pair[1] /\ new_src = pair[2]
    /\ tolerance \in Tolerances
    /\ pc = "load_first"
    /\ old_hist = NoHist
    /\ new_hist = NoHist
    /\ idx = 0
    /\ differences = 0
    /\ reported = <<>>
    /\ error = "none"
    /\ exit_code = NoExit
    /\ ToolIdle

\* sys.exit(1) or an uncaught exception: the process ends with status 1
Fatal(msg) ==
    /\ error' = msg
    /\ exit_code' = 1
    /\ pc' = "exited"

\* main: old_hist = load_...(first file, name)
LoadFirstOk ==
    /\ pc = "load_first"
    /\ LoadFirst(script, old_src).loaded
    /\ old_hist' = LoadFirst(script, old_src)
    /\ pc' = "load_second"
    /\ UNCHANGED <<script, old_src, new_src, tolerance, new_hist, idx,
                   differences, reported, error, exit_code>>
    /\ UNCHANGED tool_vars

LoadFirstFail ==
    /\ pc = "load_first"
    /\ ~LoadFirst(script, old_src).loaded
    /\ Fatal("load_error")
    /\ UNCHANGED <<script, old_src, new_src, tolerance, old_hist, new_hist,
                   idx, differences, reported>>
    /\ UNCHANGED tool_vars

\* main: new_hist = load_...(second file, name)
LoadSecondOk ==
    /\ pc = "load_second"
    /\ LoadSecond(script, new_src).loaded
    /\ new_hist' = LoadSecond(script, new_src)
    /\ pc' = "check_x"
    /\ UNCHANGED <<script, old_src, new_src, tolerance, old_hist, idx,
                   differences, reported, error, exit_code>>
    /\ UNCHANGED tool_vars

LoadSecondFail ==
    /\ pc = "load_second"
    /\ ~LoadSecond(script, new_src).loaded
    /\ Fatal("load_error")
    /\ UNCHANGED <<script, old_src, new_src, tolerance, old_hist, new_hist,
                   idx, differences, reported>>
    /\ UNCHANGED tool_vars

\* if not np.allclose(x_edges_old, x_edges_new, atol=tolerance): exit(1).
\* A ValueError raised by np.allclose is not caught: traceback, status 1.
CheckXEdgesOk ==
    /\ pc = "check_x"
    /\ allclose(old_hist.x_edges, new_hist.x_edges, tolerance) = "True"
    /\ pc' = "check_y"
    /\ UNCHANGED <<script, old_src, new_src, tolerance, old_hist, new_hist,
                   idx, differences, reported, error, exit_code>>
    /\ UNCHANGED tool_vars

CheckXEdgesMismatch ==
    /\ pc = "check_x"
    /\ allclose(old_hist.x_edges, new_hist.x_edges, tolerance) = "False"
    /\ Fatal("x_edges_mismatch")
    /\ UNCHANGED <<script, old_src, new_src, tolerance, old_hist, new_hist,
                   idx, differences, reported>>
    /\ UNCHANGED tool_vars

CheckXEdgesRaise ==
    /\ pc = "check_x"
    /\ allclose(old_hist.x_edges, new_hist.x_edges, tolerance) = "ValueError"
    /\ Fatal("x_edges_ValueError")
    /\ UNCHANGED <<script, old_src, new_src, tolerance, old_hist, new_hist,
                   idx, differences, reported>>
    /\ UNCHANGED tool_vars

\* if not np.allclose(y_edges_old, y_edges_new, atol=tolerance): exit(1)
CheckYEdgesOk ==
    /\ pc = "check_y"
    /\ allclose(old_hist.y_edges, new_hist.y_edges, tolerance) = "True"
    /\ pc' = "check_bins"
    /\ UNCHANGED <<script, old_src, new_src, tolerance, old_hist, new_hist,
                   idx, differences, reported, error, exit_code>>
    /\ UNCHANGED tool_vars

CheckYEdgesMismatch ==
    /\ pc = "check_y"
    /\ allclose(old_hist.y_edges, new_hist.y_edges, tolerance) = "False"
    /\ Fatal("y_edges_mismatch")
    /\ UNCHANGED <<script, old_src, new_src, tolerance, old_hist, new_hist,
                   idx, differences, reported>>
    /\ UNCHANGED tool_vars

CheckYEdgesRaise ==
    /\ pc = "check_y"
    /\ allclose(old_hist.y_edges, new_hist.y_edges, tolerance) = "ValueError"
    /\ Fatal("y_edges_ValueError")
    /\ UNCHANGED <<script, old_src, new_src, tolerance, old_hist, new_hist,
                   idx, differences, reported>>
    /\ UNCHANGED tool_vars

\* if num_bins_new != num_bins_old: exit(1) ; else differences = 0
CheckNumBinsOk ==
    /\ pc = "check_bins"
    /\ Len(new_hist.bin_contents) = Len(old_hist.bin_contents)
    /\ differences' = 0
    /\ idx' = 0
    /\ pc' = "loop"
    /\ UNCHANGED <<script, old_src, new_src, tolerance, old_hist, new_hist,
                   reported, error, exit_code>>
    /\ UNCHANGED tool_vars

CheckNumBinsMismatch ==
    /\ pc = "check_bins"
    /\ Len(new_hist.bin_contents) # Len(old_hist.bin_contents)
    /\ Fatal("num_bins_mismatch")
    /\ UNCHANGED <<script, old_src, new_src, tolerance, old_hist, new_hist,
                   idx, differences, reported>>
    /\ UNCHANGED tool_vars

\* one iteration of: for idx in range(num_bins_old)
LoopSame ==
    /\ pc = "loop"
    /\ idx < Len(old_hist.bin_contents)
    /\ ~exceeds(cell_diff(script, old_hist.bin_contents[idx + 1],
                          new_hist.bin_contents[idx + 1]), tolerance)
    /\ idx' = idx + 1
    /\ UNCHANGED <<script, old_src, new_src, tolerance, pc, old_hist, new_hist,
                   differences, reported, error, exit_code>>
    /\ UNCHANGED tool_vars

\* variant: a differing bin of the first grid is overwritten with the value
\* of the second
LoopDiffer_overwriting ==
    /\ pc = "loop"
    /\ idx < Len(old_hist.bin_contents)
    /\ exceeds(cell_diff(script, old_hist.bin_contents[idx + 1],
                         new_hist.bin_contents[idx + 1]), tolerance)
    /\ num_phi_bins(old_hist.y_edges) # 0
    /\ differences' = differences + 1
    /\ reported' = Append(reported,
                          Report(script, idx, num_phi_bins(old_hist.y_edges),
                                 old_hist.bin_contents[idx + 1],
                                 new_hist.bin_contents[idx + 1]))
    /\ old_hist' = [old_hist EXCEPT !.bin_contents[idx + 1] =
                                        new_hist.bin_contents[idx + 1]]
    /\ idx' = idx + 1
    /\ UNCHANGED <<script, old_src, new_src, tolerance, pc, new_hist,
                   error, exit_code>>
    /\ UNCHANGED tool_vars

LoopDiffer ==
    /\ pc = "loop"
    /\ idx < Len(old_hist.bin_contents)
    /\ exceeds(cell_diff(script, old_hist.bin_contents[idx + 1],
                         new_hist.bin_contents[idx + 1]), tolerance)
    /\ num_phi_bins(old_hist.y_edges) # 0
    /\ differences' = differences + 1
    /\ reported' = Append(reported,
                          Report(script, idx, num_phi_bins(old_hist.y_edges),
                                 old_hist.bin_contents[idx + 1],
                                 new_hist.bin_contents[idx + 1]))
    /\ idx' = idx + 1
    /\ UNCHANGED <<script, old_src, new_src, tolerance, pc, old_hist, new_hist,
                   error, exit_code>>
    /\ UNCHANGED tool_vars

\* idx // num_phi_bins with a single Y edge: uncaught ZeroDivisionError
LoopZeroDivision ==
    /\ pc = "loop"
    /\ idx < Len(old_hist.bin_contents)
    /\ exceeds(cell_diff(script, old_hist.bin_contents[idx + 1],
                         new_hist.bin_contents[idx + 1]), tolerance)
    /\ num_phi_bins(old_hist.y_edges) = 0
    /\ differences' = differences + 1
    /\ Fatal("ZeroDivisionError")
    /\ UNCHANGED <<script, old_src, new_src, tolerance, old_hist, new_hist,
                   idx, reported>>
    /\ UNCHANGED tool_vars

\* variant: the loop stops one bin short, range(num_bins_old - 1)
Return_one_short ==
    /\ pc = "loop"
    /\ idx >= Len(old_hist.bin_contents) - 1
    /\ pc' = "main"
    /\ UNCHANGED <<script, old_src, new_src, tolerance, old_hist, new_hist,
                   idx, differences, reported, error, exit_code>>
    /\ UNCHANGED tool_vars

\* loop exhausted: the total is logged and compare_histograms returns
Return ==
    /\ pc = "loop"
    /\ idx = Len(old_hist.bin_contents)
    /\ pc' = "main"
    /\ UNCHANGED <<script, old_src, new_src, tolerance, old_hist, new_hist,
                   idx, differences, reported, error, exit_code>>
    /\ UNCHANGED tool_vars

\* main: sys.exit(0 if differences == 0 else 1)
MainExit ==
    /\ pc = "main"
    /\ exit_code' = (IF differences = 0 THEN 0 ELSE 1)
    /\ pc' = "exited"
    /\ UNCHANGED <<script, old_src, new_src, tolerance, old_hist, new_hist,
                   idx, differences, reported, error>>
    /\ UNCHANGED tool_vars

Next ==
    \/ LoadFirstOk
    \/ LoadFirstFail
    \/ LoadSecondOk
    \/ LoadSecondFail
    \/ CheckXEdgesOk
    \/ CheckXEdgesMismatch
    \/ CheckXEdgesRaise
    \/ CheckYEdgesOk
    \/ CheckYEdgesMismatch
    \/ CheckYEdgesRaise
    \/ CheckNumBinsOk
    \/ CheckNumBinsMismatch
    \/ LoopSame
    \/ LoopDiffer
    \/ LoopZeroDivision
    \/ Return
    \/ MainExit

Spec == Init /\ [][Next]_vars

TypeOK ==
    /\ script \in Scripts \cup {"remove_coordinates", "remove_bpix_region",
                                "plot_for_jerc_web", "overlay_veto_maps_new",
                                "plot_jet_veto_map", "root_to_json",
                                "json_json.load_json_map",
                                "root_json.load_json_map"}
    /\ tolerance \in Tolerances
    /\ pc \in {"load_first", "load_second", "check_x", "check_y", "check_bins",
               "loop", "main", "exited", "off"}
    /\ step \in {"off", "open_input", "get", "check", "loop", "copy", "close",
                 "loaded", "masks", "write", "finish", "done"}
    /\ open_files \subseteq {"input", "output"}
    /\ removed_bins >= 0
    /\ idx \in 0..(MaxBins + 1)
    /\ differences \in 0..(MaxBins + 1)
    /\ exit_code \in {NoExit, 0, 1}

\* ------------------------------------------------------- derived predicates
BothLoaded == old_hist.loaded /\ new_hist.loaded

\* compare_histograms has been entered and has got past its three checks
InLoopOrAfter == pc \in {"loop", "main"} \/ (pc = "exited" /\ error = "ZeroDivisionError")

\* compare_histograms has returned to main (and main may have exited since)
Returned == pc = "main" \/ (pc = "exited" /\ error = "none")

\* the run is over
Exited == pc = "exited"

\* zero-based flat indices whose values differ by more than tol, ascending
DifferingIdx(a, b, tol) ==
    SelectSeq([i \in 1..Len(a) |-> i - 1],
              LAMBDA i : Abs(b[i + 1] - a[i + 1]) > tol)

\* the step-by-step run and the function compare_histograms agree
RunIsCompare ==
    /\ pc = "main" =>
          compare_histograms(script, old_hist, new_hist, tolerance)
              = [outcome |-> "returned", differences |-> differences,
                 reported |-> reported]
    /\ (Exited /\ BothLoaded /\ error # "none") =>
          compare_histograms(script, old_hist, new_hist, tolerance)
              = [outcome |-> error, differences |-> differences,
                 reported |-> reported]

\* ============================================== the region-removal scripts
\* ---------------------------------------------------------- tool bounds
MaxGrid == 2
MaxRegions == 2

\* ------------------------------------------------------------ histograms
NBinsX(h) == Len(h.x_edges) - 1
NBinsY(h) == Len(h.y_edges) - 1
Bins(h) == (1..NBinsX(h)) \X (1..NBinsY(h))

\* TAxis::GetBinCenter: the middle of the bin; edges are even numbers here,
\* so that the centre is an integer
GetBinCenter(edges, i) == (edges[i] + edges[i + 1]) \div 2

GetBinContent(h, i, j) == h.content[<<i, j>>]

SetBinContent(h, i, j, v) == [h EXCEPT !.content[<<i, j>>] = v]

\* TH2::Clone: a separate object with the same binning and content
Clone(h) == TH2(h.x_edges, h.y_edges, h.content)

\* axis with n bins of width 2 starting at 0: centres 1, 3, 5, ...
Axis(n) == [i \in 1..(n + 1) |-> 2 * (i - 1)]

\* bin values of the input histograms: all 0, all 100, or a different
\* non-zero value in every bin
Patterns == {"zero", "hundred", "distinct"}

PatternValue(pat, i, j) ==
    IF pat = "zero" THEN 0
    ELSE IF pat = "hundred" THEN 100
    ELSE 10 * i + j

Grid(nx, ny, pat) ==
    TH2(Axis(nx), Axis(ny),
        [b \in (1..nx) \X (1..ny) |-> PatternValue(pat, b[1], b[2])])

Grids == { Grid(nx, ny, pat) : nx \in 1..MaxGrid, ny \in 1..MaxGrid, pat \in Patterns }

RefGrid == Grid(1, 1, "hundred")

\* ---------------------------------------------------------------- regions
\* (eta_min, eta_max, phi_min, phi_max)
Region(a, b, c, d) == [eta_min |-> a, eta_max |-> b, phi_min |-> c, phi_max |-> d]

\* intervals whose bounds fall on bin edges and on bin centres
Intervals == {<<0, 1>>, <<0, 2>>, <<1, 4>>, <<0, 4>>}

Regions == { Region(e[1], e[2], p[1], p[2]) : e \in Intervals, p \in Intervals }

RegionLists == UNION { [1..n -> Regions] : n \in 0..MaxRegions }

\* variant: a centre on the boundary of a region counts as inside
in_region_closed(r, eta, phi) ==
    /\ r.eta_min <= eta
    /\ eta <= r.eta_max
    /\ r.phi_min <= phi
    /\ phi <= r.phi_max

\* if eta_min < eta < eta_max and phi_min < phi < phi_max
in_region(r, eta, phi) ==
    /\ r.eta_min < eta
    /\ eta < r.eta_max
    /\ r.phi_min < phi
    /\ phi < r.phi_max

\* the regions of the list that the inner loop would match
Matching(regs, eta, phi) == { k \in 1..Len(regs) : in_region(regs[k], eta, phi) }

\* variant: no break after a match, every matching region counts the bin
removed_increment_no_break(regs, eta, phi) == Cardinality(Matching(regs, eta, phi))

\* what one bin adds to removed_bins: the inner loop stops at the first
\* matching region (break)
removed_increment(regs, eta, phi) ==
    IF Matching(regs, eta, phi) # {} THEN 1 ELSE 0

\* variant: a bin inside a region is negated
zero_regions_negating(h, regs) ==
    [h EXCEPT !.content =
        [b \in Bins(h) |->
            IF Matching(regs, GetBinCenter(h.x_edges, b[1]),
                        GetBinCenter(h.y_edges, b[2])) # {}
            THEN 0 - h.content[b] ELSE h.content[b]]]

\* the whole loop of remove_regions on a clone of h
zero_regions(h, regs) ==
    [h EXCEPT !.content =
        [b \in Bins(h) |->
            IF Matching(regs, GetBinCenter(h.x_edges, b[1]),
                        GetBinCenter(h.y_edges, b[2])) # {}
            THEN 0 ELSE h.content[b]]]

\* the next pair of: for ix in 1..nbinsX: for iy in 1..nbinsY
NextIx(h, i, j) == IF j < NBinsY(h) THEN i ELSE i + 1
NextIy(h, i, j) == IF j < NBinsY(h) THEN j + 1 ELSE 1

\* ----------------------------------------------------- remove_coordinates
\* the histogram name given on the command line, and another key of the file
HistName == "jetvetomap"
OtherName == "jetvetomap_hot"

FileWith(g) ==
    RootDir(<<TKey(HistName, 1, TH2D(HistName, g)),
              TKey(OtherName, 1, TH2D(OtherName, RefGrid))>>)
FileWithout == RootDir(<<TKey(OtherName, 1, TH2D(OtherName, RefGrid))>>)

\* a file that holds two cycles of the histogram, the newer one first, and
\* an object that is not a histogram
FileWithCycles ==
    RootDir(<<TKey(HistName, 2, TH2D(HistName, RefGrid)),
              TKey(HistName, 1, TH2D(HistName, Grid(1, 1, "zero"))),
              TKey("note", 1, TObject("TNamed", "note", "note", NoTH2))>>)

\* a file whose histogram was made under another name than its key
FileWithRenamed ==
    RootDir(<<TKey(HistName, 1, TObject("TH2D", "h2", "h2", RefGrid)),
              TKey(OtherName, 1, TH2D(OtherName, RefGrid))>>)

RefRegions == <<Region(0, 2, 0, 2)>>

\* runs of remove_coordinates.py: (input file, output openable, regions)
RemoveCoordinatesCases ==
    { <<f, TRUE, rs>> : f \in { FileWith(g) : g \in Grids }, rs \in RegionLists }
    \cup { <<NoFile, TRUE, RefRegions>>,
           <<FileWithout, TRUE, RefRegions>>,
           <<FileWithCycles, TRUE, RefRegions>>,
           <<FileWithRenamed, TRUE, RefRegions>>,
           <<FileWith(RefGrid), FALSE, RefRegions>> }

\* what a file left at the output path by an earlier run holds
ExistingOutput == <<TKey(OtherName, 1, TH2D(OtherName, Grid(1, 1, "zero")))>>

\* the output path before a region-removal run: an old file; when the run
\* cannot get its histograms from the input file, also no file
PriorOutputs(f, requested) ==
    IF f.status = "ok" /\ requested \subseteq DOMAIN f.keys
    THEN {ExistingOutput}
    ELSE {<<>>, ExistingOutput}

\* print(...); sys.exit(1)
ToolFatal(msg) ==
    /\ error' = msg
    /\ messages' = messages \cup {msg}
    /\ exit_code' = 1
    /\ step' = "done"

\* an exception that nothing catches: traceback, status 1, no line printed
\* by the script
ToolRaise(exc) ==
    /\ error' = exc
    /\ exit_code' = 1
    /\ step' = "done"
    /\ UNCHANGED messages

\* input_file = ROOT.TFile.Open(input_filename, "READ") gives a null or
\* zombie file (what TFile.Open does on a failure depends on the ROOT build:
\* it returns such a file, or it raises OSError)
RcOpenInputFail ==
    /\ script = "remove_coordinates"
    /\ step = "open_input"
    /\ input_file.status # "ok"
    /\ ToolFatal("cannot_open_input")
    /\ UNCHANGED <<script, input_file, output_file, regions, histos, hist, mask,
                   modified, ix, iy, removed_bins, open_files>>
    /\ UNCHANGED validation_vars

\* ROOT.TFile.Open(input_filename, "READ") raises OSError: the check that
\* follows is not reached
RcOpenInputRaise ==
    /\ script = "remove_coordinates"
    /\ step = "open_input"
    /\ input_file.status # "ok"
    /\ ToolRaise("OSError")
    /\ UNCHANGED <<script, input_file, output_file, regions, histos, hist, mask,
                   modified, ix, iy, removed_bins, open_files>>
    /\ UNCHANGED validation_vars

\* variant: the output file is created together with the opening of the input
RcOpenInputOk_creating_output ==
    /\ script = "remove_coordinates"
    /\ step = "open_input"
    /\ input_file.status = "ok"
    /\ open_files' = open_files \cup {"input"}
    /\ output_file' = OutFile(output_file.openable, TRUE, <<>>)
    /\ step' = "get"
    /\ UNCHANGED <<script, input_file, regions, histos, hist, mask,
                   modified, ix, iy, removed_bins, messages, error, exit_code>>
    /\ UNCHANGED validation_vars

RcOpenInputOk ==
    /\ script = "remove_coordinates"
    /\ step = "open_input"
    /\ input_file.status = "ok"
    /\ open_files' = open_files \cup {"input"}
    /\ step' = "get"
    /\ UNCHANGED <<script, input_file, output_file, regions, histos, hist, mask,
                   modified, ix, iy, removed_bins, messages, error, exit_code>>
    /\ UNCHANGED validation_vars

\* h2 = input_file.Get(hist_name); if not h2: close the input, exit(1)
RcGetMissing ==
    /\ script = "remove_coordinates"
    /\ step = "get"
    /\ HistName \notin DOMAIN input_file.keys
    /\ open_files' = open_files \ {"input"}
    /\ ToolFatal("hist_not_found")
    /\ UNCHANGED <<script, input_file, output_file, regions, histos, hist, mask,
                   modified, ix, iy, removed_bins>>
    /\ UNCHANGED validation_vars

\* modified = h2.Clone(...); modified.SetDirectory(0); removed_bins = 0
RcGetOk ==
    /\ script = "remove_coordinates"
    /\ step = "get"
    /\ HistName \in DOMAIN input_file.keys
    /\ hist' = input_file.keys[HistName]
    /\ modified' = Clone(input_file.keys[HistName])
    /\ removed_bins' = 0
    /\ ix' = 1
    /\ iy' = 1
    /\ step' = "loop"
    /\ UNCHANGED <<script, input_file, output_file, regions, histos, mask, open_files,
                   messages, error, exit_code>>
    /\ UNCHANGED validation_vars

\* variant: the bin is zeroed in the histogram of the input file as well
RcZeroBin_in_place ==
    /\ script = "remove_coordinates"
    /\ step = "loop"
    /\ ix <= NBinsX(modified)
    /\ Matching(regions, GetBinCenter(modified.x_edges, ix),
                GetBinCenter(modified.y_edges, iy)) # {}
    /\ modified' = SetBinContent(modified, ix, iy, 0)
    /\ hist' = SetBinContent(hist, ix, iy, 0)
    /\ removed_bins' = removed_bins
           + removed_increment(regions, GetBinCenter(modified.x_edges, ix),
                               GetBinCenter(modified.y_edges, iy))
    /\ ix' = NextIx(modified, ix, iy)
    /\ iy' = NextIy(modified, ix, iy)
    /\ UNCHANGED <<script, input_file, output_file, regions, histos, mask, step,
                   open_files, messages, error, exit_code>>
    /\ UNCHANGED validation_vars

\* one bin whose centre is inside a region: SetBinContent(ix, iy, 0),
\* removed_bins += 1, break
RcZeroBin ==
    /\ script = "remove_coordinates"
    /\ step = "loop"
    /\ ix <= NBinsX(modified)
    /\ Matching(regions, GetBinCenter(modified.x_edges, ix),
                GetBinCenter(modified.y_edges, iy)) # {}
    /\ modified' = SetBinContent(modified, ix, iy, 0)
    /\ removed_bins' = removed_bins
           + removed_increment(regions, GetBinCenter(modified.x_edges, ix),
                               GetBinCenter(modified.y_edges, iy))
    /\ ix' = NextIx(modified, ix, iy)
    /\ iy' = NextIy(modified, ix, iy)
    /\ UNCHANGED <<script, input_file, output_file, regions, histos, hist, mask, step,
                   open_files, messages, error, exit_code>>
    /\ UNCHANGED validation_vars

\* one bin whose centre is inside no region
RcKeepBin ==
    /\ script = "remove_coordinates"
    /\ step = "loop"
    /\ ix <= NBinsX(modified)
    /\ Matching(regions, GetBinCenter(modified.x_edges, ix),
                GetBinCenter(modified.y_edges, iy)) = {}
    /\ ix' = NextIx(modified, ix, iy)
    /\ iy' = NextIy(modified, ix, iy)
    /\ UNCHANGED <<script, input_file, output_file, regions, histos, hist, mask,
                   modified, removed_bins, step, open_files, messages, error,
                   exit_code>>
    /\ UNCHANGED validation_vars

\* ROOT.TFile.Open(output_filename, "RECREATE") raises OSError: the check
\* and its input_file.Close() are not reached
RcOpenOutputRaise ==
    /\ script = "remove_coordinates"
    /\ step = "loop"
    /\ ix > NBinsX(modified)
    /\ ~output_file.openable
    /\ ToolRaise("OSError")
    /\ UNCHANGED <<script, input_file, output_file, regions, histos, hist, mask,
                   modified, ix, iy, removed_bins, open_files>>
    /\ UNCHANGED validation_vars

\* output_file = ROOT.TFile.Open(output_filename, "RECREATE") gives a null
\* or zombie file: the input is closed, exit(1)
RcOpenOutputFail ==
    /\ script = "remove_coordinates"
    /\ step = "loop"
    /\ ix > NBinsX(modified)
    /\ ~output_file.openable
    /\ open_files' = open_files \ {"input"}
    /\ ToolFatal("cannot_create_output")
    /\ UNCHANGED <<script, input_file, output_file, regions, histos, hist, mask,
                   modified, ix, iy, removed_bins>>
    /\ UNCHANGED validation_vars

RcOpenOutputOk ==
    /\ script = "remove_coordinates"
    /\ step = "loop"
    /\ ix > NBinsX(modified)
    /\ output_file.openable
    /\ output_file' = OutFile(TRUE, TRUE, <<>>)
    /\ open_files' = open_files \cup {"output"}
    /\ step' = "copy"
    /\ UNCHANGED <<script, input_file, regions, histos, hist, mask, modified, ix, iy,
                   removed_bins, messages, error, exit_code>>
    /\ UNCHANGED validation_vars

\* for key in input_file.GetListOfKeys(), from key i on: kname =
\* key.GetName(); obj = key.ReadObj(); modified.Write(kname) if kname ==
\* hist_name, obj.Write(kname) otherwise
RECURSIVE remove_regions_copy(_, _, _, _)
remove_regions_copy(list, i, written, modified_obj) ==
    IF i > Len(list) THEN written
    ELSE remove_regions_copy(list, i + 1,
             WriteKey(written, list[i].name,
                      IF list[i].name = HistName THEN modified_obj ELSE list[i].obj),
             modified_obj)

\* the loop over the keys of the input: modified is the clone of the object
\* that Get(hist_name) gave, with its name and title
RcCopyKeys ==
    /\ script = "remove_coordinates"
    /\ step = "copy"
    /\ output_file' = [output_file EXCEPT !.keys =
           remove_regions_copy(input_file.list, 1, output_file.keys,
                               [Get(input_file.list, HistName) EXCEPT !.h = modified])]
    /\ step' = "close"
    /\ UNCHANGED <<script, input_file, regions, histos, hist, mask, modified, ix, iy,
                   removed_bins, open_files, messages, error, exit_code>>
    /\ UNCHANGED validation_vars

\* output_file.Close(); input_file.Close(); the script ends with status 0
RcClose ==
    /\ script = "remove_coordinates"
    /\ step = "close"
    /\ open_files' = (open_files \ {"output"}) \ {"input"}
    /\ messages' = messages \cup {"written_successfully"}
    /\ exit_code' = 0
    /\ step' = "done"
    /\ UNCHANGED <<script, input_file, output_file, regions, histos, hist, mask,
                   modified, ix, iy, removed_bins, error>>
    /\ UNCHANGED validation_vars

\* ----------------------------------------------------- remove_bpix_region
removeFrom == "jetvetomap_cold"
tobeRemoved == "jetvetomap_bpix"

\* values of the mask histogram: vetoed (100), not vetoed (0), negative
MaskVals == {-100, 0, 100}

\* a mask with value vc in bin (cx, cy) and vr in every other bin
MaskGrid(nx, ny, cx, cy, vc, vr) ==
    TH2(Axis(nx), Axis(ny),
        [b \in (1..nx) \X (1..ny) |-> IF b = <<cx, cy>> THEN vc ELSE vr])

MaskGrids ==
    { MaskGrid(nx, ny, cx, cy, vc, vr) :
        nx \in 1..MaxGrid, ny \in 1..MaxGrid, cx \in 1..MaxGrid, cy \in 1..MaxGrid,
        vc \in MaskVals, vr \in MaskVals }

BpixFile(g, m) ==
    RootDir(<<TKey(removeFrom, 1, TH2D(removeFrom, g)),
              TKey(tobeRemoved, 1, TH2D(tobeRemoved, m)),
              TKey(HistName, 1, TH2D(HistName, RefGrid))>>)

\* a file that holds two cycles of the base histogram, the newer one first,
\* and an object that is not a histogram
BpixFileWithCycles ==
    RootDir(<<TKey(removeFrom, 2, TH2D(removeFrom, RefGrid)),
              TKey(removeFrom, 1, TH2D(removeFrom, Grid(1, 1, "zero"))),
              TKey(tobeRemoved, 1, TH2D(tobeRemoved, RefGrid)),
              TKey("note", 1, TObject("TNamed", "note", "note", NoTH2))>>)

\* a file whose base histogram was made under another name than its key
BpixFileWithRenamed ==
    RootDir(<<TKey(removeFrom, 1, TObject("TH2D", "h_cold", "h_cold", RefGrid)),
              TKey(tobeRemoved, 1, TH2D(tobeRemoved, RefGrid))>>)

\* a file with an object that is not a histogram next to the two histograms
BpixFileWithNote ==
    RootDir(<<TKey(removeFrom, 1, TH2D(removeFrom, RefGrid)),
              TKey(tobeRemoved, 1, TH2D(tobeRemoved, RefGrid)),
              TKey("note", 1, TObject("TNamed", "note", "note", NoTH2))>>)

\* runs of remove_bpix_region.py: (input file, output openable)
RemoveBpixCases ==
    { <<BpixFile(g, m), TRUE>> : g \in Grids, m \in MaskGrids }
    \cup { <<NoFile, TRUE>>,
           <<RootDir(<<TKey(tobeRemoved, 1, TH2D(tobeRemoved, RefGrid))>>), TRUE>>,
           <<RootDir(<<TKey(removeFrom, 1, TH2D(removeFrom, RefGrid))>>), TRUE>>,
           <<RootDir(<<TKey(HistName, 1, TH2D(HistName, RefGrid))>>), TRUE>>,
           <<BpixFileWithCycles, TRUE>>,
           <<BpixFileWithRenamed, TRUE>>,
           <<BpixFileWithNote, TRUE>>,
           <<BpixFile(RefGrid, RefGrid), FALSE>> }

\* variant: a bin is zeroed when the mask is not zero
masked_nonzero(bpix_content) == bpix_content # 0

\* variant: a bin is zeroed when the mask is not negative
masked_nonnegative(bpix_content) == bpix_content >= 0

\* if bpix_content > 0
masked(bpix_content) == bpix_content > 0

\* variant: a masked bin is negated
zero_masked_negating(h, m) ==
    [h EXCEPT !.content =
        [b \in Bins(h) |-> IF masked(m.content[b]) THEN 0 - h.content[b]
                           ELSE h.content[b]]]

\* the whole loop of remove_bpix_region on a clone of h with the mask m
zero_masked(h, m) ==
    [h EXCEPT !.content =
        [b \in Bins(h) |-> IF masked(m.content[b]) THEN 0 ELSE h.content[b]]]

\* ROOT.TFile.Open(input_filename, "READ") raises OSError: the check that
\* follows is not reached
RbOpenInputRaise ==
    /\ script = "remove_bpix_region"
    /\ step = "open_input"
    /\ input_file.status # "ok"
    /\ ToolRaise("OSError")
    /\ UNCHANGED <<script, input_file, output_file, regions, histos, hist, mask,
                   modified, ix, iy, removed_bins, open_files>>
    /\ UNCHANGED validation_vars

\* input_file = ROOT.TFile.Open(input_filename, "READ") gives a null or
\* zombie file
RbOpenInputFail ==
    /\ script = "remove_bpix_region"
    /\ step = "open_input"
    /\ input_file.status # "ok"
    /\ ToolFatal("cannot_open_input")
    /\ UNCHANGED <<script, input_file, output_file, regions, histos, hist, mask,
                   modified, ix, iy, removed_bins, open_files>>
    /\ UNCHANGED validation_vars

RbOpenInputOk ==
    /\ script = "remove_bpix_region"
    /\ step = "open_input"
    /\ input_file.status = "ok"
    /\ open_files' = open_files \cup {"input"}
    /\ step' = "get"
    /\ UNCHANGED <<script, input_file, output_file, regions, histos, hist, mask,
                   modified, ix, iy, removed_bins, messages, error, exit_code>>
    /\ UNCHANGED validation_vars

\* if not jetvetomap: close the input, exit(1)
RbGetBaseMissing ==
    /\ script = "remove_bpix_region"
    /\ step = "get"
    /\ removeFrom \notin DOMAIN input_file.keys
    /\ open_files' = open_files \ {"input"}
    /\ ToolFatal("hist_not_found")
    /\ UNCHANGED <<script, input_file, output_file, regions, histos, hist, mask,
                   modified, ix, iy, removed_bins>>
    /\ UNCHANGED validation_vars

\* if not jetvetomap_bpix: close the input, exit(1)
RbGetMaskMissing ==
    /\ script = "remove_bpix_region"
    /\ step = "get"
    /\ removeFrom \in DOMAIN input_file.keys
    /\ tobeRemoved \notin DOMAIN input_file.keys
    /\ open_files' = open_files \ {"input"}
    /\ ToolFatal("mask_not_found")
    /\ UNCHANGED <<script, input_file, output_file, regions, histos, hist, mask,
                   modified, ix, iy, removed_bins>>
    /\ UNCHANGED validation_vars

\* both histograms found; modified_jetvetomap = jetvetomap.Clone(removeFrom)
RbGetOk ==
    /\ script = "remove_bpix_region"
    /\ step = "get"
    /\ removeFrom \in DOMAIN input_file.keys
    /\ tobeRemoved \in DOMAIN input_file.keys
    /\ hist' = input_file.keys[removeFrom]
    /\ mask' = input_file.keys[tobeRemoved]
    /\ modified' = Clone(input_file.keys[removeFrom])
    /\ step' = "check"
    /\ UNCHANGED <<script, input_file, output_file, regions, histos, ix, iy,
                   removed_bins, open_files, messages, error, exit_code>>
    /\ UNCHANGED validation_vars

\* different GetNbinsX or GetNbinsY: close the input, exit(1)
RbBinningMismatch ==
    /\ script = "remove_bpix_region"
    /\ step = "check"
    /\ (NBinsX(hist) # NBinsX(mask) \/ NBinsY(hist) # NBinsY(mask))
    /\ open_files' = open_files \ {"input"}
    /\ ToolFatal("different_binning")
    /\ UNCHANGED <<script, input_file, output_file, regions, histos, hist, mask,
                   modified, ix, iy, removed_bins>>
    /\ UNCHANGED validation_vars

\* variant: only the number of X bins is compared
RbBinningOk_x_only ==
    /\ script = "remove_bpix_region"
    /\ step = "check"
    /\ NBinsX(hist) = NBinsX(mask)
    /\ ix' = 1
    /\ iy' = 1
    /\ step' = "loop"
    /\ UNCHANGED <<script, input_file, output_file, regions, histos, hist, mask,
                   modified, removed_bins, open_files, messages, error,
                   exit_code>>
    /\ UNCHANGED validation_vars

RbBinningOk ==
    /\ script = "remove_bpix_region"
    /\ step = "check"
    /\ NBinsX(hist) = NBinsX(mask)
    /\ NBinsY(hist) = NBinsY(mask)
    /\ ix' = 1
    /\ iy' = 1
    /\ step' = "loop"
    /\ UNCHANGED <<script, input_file, output_file, regions, histos, hist, mask,
                   modified, removed_bins, open_files, messages, error,
                   exit_code>>
    /\ UNCHANGED validation_vars

\* one bin with bpix_content > 0: modified_jetvetomap.SetBinContent(ix, iy, 0)
RbZeroBin ==
    /\ script = "remove_bpix_region"
    /\ step = "loop"
    /\ ix <= NBinsX(hist)
    /\ masked(GetBinContent(mask, ix, iy))
    /\ modified' = SetBinContent(modified, ix, iy, 0)
    /\ ix' = NextIx(hist, ix, iy)
    /\ iy' = NextIy(hist, ix, iy)
    /\ UNCHANGED <<script, input_file, output_file, regions, histos, hist, mask,
                   removed_bins, step, open_files, messages, error, exit_code>>
    /\ UNCHANGED validation_vars

\* one bin with bpix_content <= 0
RbKeepBin ==
    /\ script = "remove_bpix_region"
    /\ step = "loop"
    /\ ix <= NBinsX(hist)
    /\ ~masked(GetBinContent(mask, ix, iy))
    /\ ix' = NextIx(hist, ix, iy)
    /\ iy' = NextIy(hist, ix, iy)
    /\ UNCHANGED <<script, input_file, output_file, regions, histos, hist, mask,
                   modified, removed_bins, step, open_files, messages, error,
                   exit_code>>
    /\ UNCHANGED validation_vars

\* ROOT.TFile.Open(output_filename, "RECREATE") raises OSError: the check
\* and its input_file.Close() are not reached
RbOpenOutputRaise ==
    /\ script = "remove_bpix_region"
    /\ step = "loop"
    /\ ix > NBinsX(hist)
    /\ ~output_file.openable
    /\ ToolRaise("OSError")
    /\ UNCHANGED <<script, input_file, output_file, regions, histos, hist, mask,
                   modified, ix, iy, removed_bins, open_files>>
    /\ UNCHANGED validation_vars

\* output_file = ROOT.TFile.Open(output_filename, "RECREATE") gives a null
\* or zombie file: the input is closed, exit(1)
RbOpenOutputFail ==
    /\ script = "remove_bpix_region"
    /\ step = "loop"
    /\ ix > NBinsX(hist)
    /\ ~output_file.openable
    /\ open_files' = open_files \ {"input"}
    /\ ToolFatal("cannot_create_output")
    /\ UNCHANGED <<script, input_file, output_file, regions, histos, hist, mask,
                   modified, ix, iy, removed_bins>>
    /\ UNCHANGED validation_vars

RbOpenOutputOk ==
    /\ script = "remove_bpix_region"
    /\ step = "loop"
    /\ ix > NBinsX(hist)
    /\ output_file.openable
    /\ output_file' = OutFile(TRUE, TRUE, <<>>)
    /\ open_files' = open_files \cup {"output"}
    /\ step' = "copy"
    /\ UNCHANGED <<script, input_file, regions, histos, hist, mask, modified, ix, iy,
                   removed_bins, messages, error, exit_code>>
    /\ UNCHANGED validation_vars

\* f"{removeFrom} with {tobeRemoved} removed"
modified_title == "jetvetomap_cold with jetvetomap_bpix removed"

\* for key in keys, from key i on: obj = key.ReadObj(); obj_name =
\* obj.GetName(); modified_jetvetomap.Write() if obj_name == removeFrom; a
\* clone of obj under obj_name, written under its name, if obj is a
\* histogram; obj.Write() otherwise
RECURSIVE remove_bpix_region_copy(_, _, _, _)
remove_bpix_region_copy(list, i, written, modified_jetvetomap) ==
    IF i > Len(list) THEN written
    ELSE LET obj == list[i].obj
             obj_name == obj.name
         IN remove_bpix_region_copy(list, i + 1,
                IF obj_name = removeFrom
                THEN WriteKey(written, modified_jetvetomap.name, modified_jetvetomap)
                ELSE IF InheritsFromTH1(obj)
                THEN WriteKey(written, obj_name, [obj EXCEPT !.name = obj_name])
                ELSE WriteKey(written, obj.name, obj),
                modified_jetvetomap)

\* the loop over the keys of the input: modified_jetvetomap is
\* jetvetomap.Clone(removeFrom) with the title set by SetTitle
RbCopyKeys ==
    /\ script = "remove_bpix_region"
    /\ step = "copy"
    /\ output_file' = [output_file EXCEPT !.keys =
           remove_bpix_region_copy(input_file.list, 1, output_file.keys,
               [Get(input_file.list, removeFrom) EXCEPT !.name = removeFrom,
                                                       !.title = modified_title,
                                                       !.h = modified])]
    /\ step' = "close"
    /\ UNCHANGED <<script, input_file, regions, histos, hist, mask, modified, ix, iy,
                   removed_bins, open_files, messages, error, exit_code>>
    /\ UNCHANGED validation_vars

\* output_file.Close(); input_file.Close(); the script ends with status 0
RbClose ==
    /\ script = "remove_bpix_region"
    /\ step = "close"
    /\ open_files' = (open_files \ {"output"}) \ {"input"}
    /\ messages' = messages \cup {"written_successfully"}
    /\ exit_code' = 0
    /\ step' = "done"
    /\ UNCHANGED <<script, input_file, output_file, regions, histos, hist, mask,
                   modified, ix, iy, removed_bins, error>>
    /\ UNCHANGED validation_vars

\* ------------------------------------------------------ plot_for_jerc_web
\* the three histograms that load_histos reads
PlotNames == {"jetvetomap", "jetvetomap_hot", "jetvetomap_cold"}

\* input files of the plotting scripts: no file, or any subset of the names
PlotFiles ==
    {NoFile} \cup { RootFile("ok", [n \in S |-> RefGrid]) : S \in SUBSET PlotNames }

\* master, hot and cold maps over one grid of two bins: the master map holds
\* 0 or 100 in a bin, the hot and cold maps a sentinel or 0
MasterGrids == { TH2(Axis(1), Axis(2), c) : c \in [{<<1, 1>>, <<1, 2>>} -> {0, 100}] }
SentinelGrids == { TH2(Axis(1), Axis(2), c) : c \in [{<<1, 1>>, <<1, 2>>} -> MaskVals] }
MaskedPlotFiles ==
    { RootFile("ok", ("jetvetomap" :> m) @@ ("jetvetomap_hot" :> h)
                       @@ ("jetvetomap_cold" :> c)) :
        m \in MasterGrids, h \in SentinelGrids, c \in SentinelGrids }

\* ROOT.TFile.Open(filename, "READ") raises OSError: the check that follows
\* and its raise IOError are not reached
PjOpenRaise ==
    /\ script = "plot_for_jerc_web"
    /\ step = "open_input"
    /\ input_file.status # "ok"
    /\ ToolRaise("OSError")
    /\ UNCHANGED <<script, input_file, output_file, regions, histos, hist, mask,
                   modified, ix, iy, removed_bins, open_files>>
    /\ UNCHANGED validation_vars

\* f = ROOT.TFile.Open(filename, "READ") gives a null or zombie file;
\* raise IOError("Cannot open ..."): traceback, status 1
PjOpenFail ==
    /\ script = "plot_for_jerc_web"
    /\ step = "open_input"
    /\ input_file.status # "ok"
    /\ ToolFatal("IOError")
    /\ UNCHANGED <<script, input_file, output_file, regions, histos, hist, mask,
                   modified, ix, iy, removed_bins, open_files>>
    /\ UNCHANGED validation_vars

PjOpenOk ==
    /\ script = "plot_for_jerc_web"
    /\ step = "open_input"
    /\ input_file.status = "ok"
    /\ open_files' = open_files \cup {"input"}
    /\ step' = "get"
    /\ UNCHANGED <<script, input_file, output_file, regions, histos, hist, mask,
                   modified, ix, iy, removed_bins, messages, error, exit_code>>
    /\ UNCHANGED validation_vars

\* one of the three is missing: raise KeyError (f.Close() is not reached):
\* traceback, status 1
PjGetMissing ==
    /\ script = "plot_for_jerc_web"
    /\ step = "get"
    /\ PlotNames \ DOMAIN input_file.keys # {}
    /\ ToolFatal("KeyError")
    /\ UNCHANGED <<script, input_file, output_file, regions, histos, hist, mask,
                   modified, ix, iy, removed_bins, open_files>>
    /\ UNCHANGED validation_vars

\* all three found and detached; f.Close(); return master, hot, cold
PjGetOk ==
    /\ script = "plot_for_jerc_web"
    /\ step = "get"
    /\ PlotNames \subseteq DOMAIN input_file.keys
    /\ histos' = [n \in PlotNames |-> input_file.keys[n]]
    /\ open_files' = open_files \ {"input"}
    /\ step' = "loaded"
    /\ UNCHANGED <<script, input_file, output_file, regions, hist, mask,
                   modified, ix, iy, removed_bins, messages, error, exit_code>>
    /\ UNCHANGED validation_vars

\* variant: the cold test is made whether or not the hot test passed
in_cold_mask_without_elif(master_content, hot_content, cold_content) ==
    master_content # 0 /\ cold_content # 0

\* if master == 0: continue; if hot != 0: ...; elif cold != 0: coldMask = 1
in_cold_mask(master_content, hot_content, cold_content) ==
    master_content # 0 /\ hot_content = 0 /\ cold_content # 0

\* if master == 0: continue; if hot != 0: hotMask = 1
in_hot_mask(master_content, hot_content) ==
    master_content # 0 /\ hot_content # 0

\* build_masks: two clones of master, reset to 0, then the loop over the bins
build_masks(master, hot, cold) ==
    [hotMask |->
        [master EXCEPT !.content =
            [b \in Bins(master) |->
                IF in_hot_mask(master.content[b], hot.content[b]) THEN 1 ELSE 0]],
     coldMask |->
        [master EXCEPT !.content =
            [b \in Bins(master) |->
                IF in_cold_mask(master.content[b], hot.content[b], cold.content[b])
                THEN 1 ELSE 0]]]

\* main: hotMask, coldMask = build_masks(master, hot, cold)
PjBuildMasks ==
    /\ script = "plot_for_jerc_web"
    /\ step = "loaded"
    /\ LET m == build_masks(histos["jetvetomap"], histos["jetvetomap_hot"],
                            histos["jetvetomap_cold"])
       IN histos' = histos @@ ("hotMask" :> m.hotMask) @@ ("coldMask" :> m.coldMask)
    /\ step' = "masks"
    /\ UNCHANGED <<script, input_file, output_file, regions, hist, mask,
                   modified, ix, iy, removed_bins, open_files, messages, error,
                   exit_code>>
    /\ UNCHANGED validation_vars

\* main: draw_map; the script ends with status 0
PjDraw ==
    /\ script = "plot_for_jerc_web"
    /\ step = "masks"
    /\ exit_code' = 0
    /\ step' = "done"
    /\ UNCHANGED <<script, input_file, output_file, regions, histos, hist, mask,
                   modified, ix, iy, removed_bins, open_files, messages, error>>
    /\ UNCHANGED validation_vars

\* -------------------------------------------------- overlay_veto_maps_new
\* load_histos: if not path.exists(): print the error, return no histograms
OnFileNotFound ==
    /\ script = "overlay_veto_maps_new"
    /\ step = "open_input"
    /\ input_file.status # "ok"
    /\ messages' = messages \cup {"file_not_found"}
    /\ histos' = <<>>
    /\ step' = "loaded"
    /\ UNCHANGED <<script, input_file, output_file, regions, hist, mask,
                   modified, ix, iy, removed_bins, open_files, error, exit_code>>
    /\ UNCHANGED validation_vars

\* root_file = ROOT.TFile(str(path), "READ")
OnOpen ==
    /\ script = "overlay_veto_maps_new"
    /\ step = "open_input"
    /\ input_file.status = "ok"
    /\ open_files' = open_files \cup {"input"}
    /\ step' = "get"
    /\ UNCHANGED <<script, input_file, output_file, regions, histos, hist, mask,
                   modified, ix, iy, removed_bins, messages, error, exit_code>>
    /\ UNCHANGED validation_vars

\* for key, hname in HIST_NAMES: a missing histogram is a warning and is
\* skipped; root_file.Close(); return histos
OnGetAll ==
    /\ script = "overlay_veto_maps_new"
    /\ step = "get"
    /\ histos' = [n \in PlotNames \cap DOMAIN input_file.keys |-> input_file.keys[n]]
    /\ messages' = messages \cup
           (IF PlotNames \ DOMAIN input_file.keys # {}
            THEN {"hist_not_found"} ELSE {})
    /\ open_files' = open_files \ {"input"}
    /\ step' = "loaded"
    /\ UNCHANGED <<script, input_file, output_file, regions, hist, mask,
                   modified, ix, iy, removed_bins, error, exit_code>>
    /\ UNCHANGED validation_vars

\* main: if not histos: continue; the script ends with status 0
OnSkip ==
    /\ script = "overlay_veto_maps_new"
    /\ step = "loaded"
    /\ DOMAIN histos = {}
    /\ exit_code' = 0
    /\ step' = "done"
    /\ UNCHANGED <<script, input_file, output_file, regions, histos, hist, mask,
                   modified, ix, iy, removed_bins, open_files, messages, error>>
    /\ UNCHANGED validation_vars

\* the key of a histogram name in HIST_NAMES (hnames); the histograms are
\* kept here under their names in the file
KeyOf(hname) ==
    CASE hname = "jetvetomap" -> "official"
      [] hname = "jetvetomap_hot" -> "hot"
      [] hname = "jetvetomap_cold" -> "cold"
      [] hname = "jetvetomap_bpix" -> "bpix"

\* the colour values, in tenths: COLOR_RANGE (values['hot'], values['cold'])
COLOR_RANGE_hot == 100
COLOR_RANGE_cold == 0

\* COLOR_VALUES.get(key, 0) (values[name]), in tenths
COLOR_VALUES(key) == IF key = "bpix" THEN 75 ELSE 0

SKIP_HISTS == {"asymmetry", "pull", "hotandcold", "official", "all"}

\* the content of a bin, in tenths, after the three tests of the replacement
\* pass on the content val (in units) read at the start of the pass
replaced(key, val) ==
    LET is_hotcold == key \in {"hot", "cold", "all"}
        first == IF ~is_hotcold /\ val = 100 THEN COLOR_VALUES(key) ELSE 10 * val
        second == IF val = 100 THEN COLOR_RANGE_hot ELSE first
    IN IF val = -100 THEN COLOR_RANGE_cold + 1 ELSE second

\* plot_jet_veto_map: every histogram whose key is not skipped goes through
\* the replacement pass; afterwards its content is held in tenths
plot_jet_veto_map(hs) ==
    [n \in DOMAIN hs |->
        IF KeyOf(n) \in SKIP_HISTS THEN hs[n]
        ELSE [hs[n] EXCEPT !.content =
                 [b \in Bins(hs[n]) |-> replaced(KeyOf(n), hs[n].content[b])]]]

\* main: verify_content, plot_jet_veto_map; the script ends with status 0
OnPlot ==
    /\ script = "overlay_veto_maps_new"
    /\ step = "loaded"
    /\ DOMAIN histos # {}
    /\ histos' = plot_jet_veto_map(histos)
    /\ exit_code' = 0
    /\ step' = "done"
    /\ UNCHANGED <<script, input_file, output_file, regions, hist, mask,
                   modified, ix, iy, removed_bins, open_files, messages, error>>
    /\ UNCHANGED validation_vars

\* contents of the maps given to plot_jet_veto_map: the sentinels, 0 and 1
PlotVals == MaskVals \cup {1}
PlotGrids == { TH2(Axis(1), Axis(2), c) : c \in [{<<1, 1>>, <<1, 2>>} -> PlotVals] }

\* dictionaries of histograms given to plot_jet_veto_map: a region map, a
\* region map with the hot map, the cold map with the official map
PlotDicts ==
    UNION { [S -> PlotGrids] : S \in { {"jetvetomap_bpix"},
                                       {"jetvetomap_hot", "jetvetomap_bpix"},
                                       {"jetvetomap", "jetvetomap_cold"} } }

\* a call of plot_jet_veto_map on a dictionary of histograms
PvPlot ==
    /\ script = "plot_jet_veto_map"
    /\ step = "loaded"
    /\ histos' = plot_jet_veto_map(histos)
    /\ step' = "done"
    /\ UNCHANGED <<script, input_file, output_file, regions, hist, mask,
                   modified, ix, iy, removed_bins, open_files, messages, error,
                   exit_code>>
    /\ UNCHANGED validation_vars

\* ------------------------------------------- files as the loaders read them
\* histogram.values().flatten(): the values of a 2D histogram in one row,
\* the Y index running fastest
flatten(h) ==
    [k \in 1..(NBinsX(h) * NBinsY(h)) |->
        h.content[<<((k - 1) \div NBinsY(h)) + 1, ((k - 1) % NBinsY(h)) + 1>>]]

\* what load_root_histogram finds for histogram_name in a ROOT file
read_root(file, histogram_name) ==
    IF file.status # "ok" THEN Source("nofile", <<>>, <<>>, <<>>)
    ELSE IF histogram_name \notin DOMAIN file.keys
    THEN Source("nomap", <<>>, <<>>, <<>>)
    ELSE LET histogram == file.keys[histogram_name]
         IN Source("ok", histogram.x_edges, histogram.y_edges, flatten(histogram))

\* a JSON document: whether it can be read, and its list of corrections;
\* a correction is [data |-> [nodetype, content]], an item of the content
\* is [key, value |-> [nodetype, edges, content]]
JsonDoc(st, cs) == [status |-> st, corrections |-> cs]
MultiBinning(e, c) == [nodetype |-> "multibinning", edges |-> e, content |-> c]
CategoryItem(k, v) == [key |-> k, value |-> v]
Correction(nt, items) == [data |-> [nodetype |-> nt, content |-> items]]

\* no item was returned by the search
NotFound == [nodetype |-> "none", edges |-> <<>>, content |-> <<>>]

\* variant: the nodetype of the value is not looked at
is_requested_map_any_nodetype(item, map_name) == item.key = map_name

\* the two tests on an item: if item.get("key") != map_name: continue;
\* if value.get("nodetype") != "multibinning": continue
is_requested_map(item, map_name) ==
    item.key = map_name /\ item.value.nodetype = "multibinning"

\* for item in content: the first item from position j on that passes
RECURSIVE find_in_content(_, _, _)
find_in_content(content, map_name, j) ==
    IF j > Len(content) THEN NotFound
    ELSE IF ~is_requested_map(content[j], map_name)
    THEN find_in_content(content, map_name, j + 1)
    ELSE content[j].value

\* for correction in corrections: corrections whose data is not a category
\* are skipped; the first item found is returned
RECURSIVE find_in_corrections(_, _, _)
find_in_corrections(corrections, map_name, i) ==
    IF i > Len(corrections) THEN NotFound
    ELSE IF corrections[i].data.nodetype # "category"
    THEN find_in_corrections(corrections, map_name, i + 1)
    ELSE LET found == find_in_content(corrections[i].data.content, map_name, 1)
         IN IF found # NotFound THEN found
            ELSE find_in_corrections(corrections, map_name, i + 1)

\* what load_json_map finds for map_name in a JSON document: no file, no
\* corrections or a map without two edge arrays (ValueError), no map
\* (KeyError), or the arrays of the map
read_json(doc, map_name) ==
    IF doc.status = "nofile" THEN Source("nofile", <<>>, <<>>, <<>>)
    ELSE IF doc.status # "ok" THEN Source("badformat", <<>>, <<>>, <<>>)
    ELSE IF doc.corrections = <<>> THEN Source("badformat", <<>>, <<>>, <<>>)
    ELSE LET found == find_in_corrections(doc.corrections, map_name, 1)
         IN IF found = NotFound THEN Source("nomap", <<>>, <<>>, <<>>)
            ELSE IF Len(found.edges) # 2 THEN Source("badformat", <<>>, <<>>, <<>>)
            ELSE Source("ok", found.edges[1], found.edges[2], found.content)

\* --------------------------------------------------- calls of load_json_map
\* the map asked for, and another key
MapName == "jetvetomap"
OtherMap == "jetvetomap_hot"

\* values of items: two maps of one bin, a map with one edge array, a map
\* with an empty edge array, and nodes of another type
MapValues ==
    { MultiBinning(<<<<0, 2>>, <<0, 2>>>>, <<1>>),
      MultiBinning(<<<<0, 2>>, <<0, 2>>>>, <<2>>),
      MultiBinning(<<<<0, 2>>>>, <<1>>),
      MultiBinning(<<<<>>, <<0, 2>>>>, <<1>>),
      [nodetype |-> "binning", edges |-> <<<<0, 2>>, <<0, 2>>>>, content |-> <<1>>],
      [nodetype |-> "binning", edges |-> <<<<0, 2>>, <<0, 2>>>>, content |-> <<2>>] }

Items == { CategoryItem(k, v) : k \in {MapName, OtherMap}, v \in MapValues }

\* lists of at most n items
Contents(n) == UNION { [1..m -> Items] : m \in 0..n }

Corrections(n) ==
    { Correction(nt, c) : nt \in {"category", "binning"}, c \in Contents(n) }

\* the documents given to load_json_map: no file, a file that does not
\* parse, no corrections, one correction of up to two items, two
\* corrections of up to one item
JsonDocs ==
    { JsonDoc("nofile", <<>>), JsonDoc("unreadable", <<>>), JsonDoc("ok", <<>>) }
    \cup { JsonDoc("ok", <<c>>) : c \in Corrections(2) }
    \cup { JsonDoc("ok", <<c, e>>) : c \in Corrections(1), e \in Corrections(1) }

\* the script whose load_json_map is called
LoadScripts == {"json_json.load_json_map", "root_json.load_json_map"}
ValidatorOf(s) == IF s = "json_json.load_json_map" THEN "json_json" ELSE "root_json"

\* load_json_map returns the arrays of the map
LjLoadOk ==
    /\ script \in LoadScripts
    /\ step = "open_input"
    /\ LoadSecond(ValidatorOf(script), read_json(input_file, MapName)).loaded
    /\ new_src' = read_json(input_file, MapName)
    /\ new_hist' = LoadSecond(ValidatorOf(script), read_json(input_file, MapName))
    /\ step' = "done"
    /\ UNCHANGED <<script, input_file, output_file, regions, histos, hist, mask,
                   modified, ix, iy, removed_bins, open_files, messages, error,
                   exit_code>>
    /\ UNCHANGED <<old_src, tolerance, pc, old_hist, idx, differences, reported>>

\* except Exception: logging.error, traceback, sys.exit(1)
LjLoadFail ==
    /\ script \in LoadScripts
    /\ step = "open_input"
    /\ ~LoadSecond(ValidatorOf(script), read_json(input_file, MapName)).loaded
    /\ new_src' = read_json(input_file, MapName)
    /\ ToolFatal("load_json_map")
    /\ UNCHANGED <<script, input_file, output_file, regions, histos, hist, mask,
                   modified, ix, iy, removed_bins, open_files>>
    /\ UNCHANGED <<old_src, tolerance, pc, old_hist, new_hist, idx, differences,
                   reported>>

\* ------------------------------------------------------------ root_to_json
\* a key that holds "trigs" in its name
TrigsName == "jetvetomap_trigs"

\* the orders in which a file can hold the keys of S
KeyOrders(S) ==
    { o \in [1..Cardinality(S) -> S] :
        \A i \in 1..Cardinality(S) : \A j \in 1..Cardinality(S) :
            o[i] = o[j] => i = j }

\* file.keys() of uproot: "name;cycle" for every key, in the order of the
\* file; the string is held as <<name, cycle>>
file_keys(file) ==
    [k \in 1..Len(file.list) |-> <<file.list[k].name, file.list[k].cycle>>]

\* [hname for hname in file.keys() if "trigs" not in hname]
histogram_names(file) ==
    SelectSeq(file_keys(file), LAMBDA hname : hname[1] # TrigsName)

\* hname.split(";")[0]
clean_hname(hname) == hname[1]

\* file[histogram_name]: the object of the key of that name and cycle
file_getitem(file, histogram_name) ==
    LET k == CHOOSE n \in 1..Len(file.list) :
                 /\ file.list[n].name = histogram_name[1]
                 /\ file.list[n].cycle = histogram_name[2]
    IN file.list[k].obj

\* a list of numbers is strictly increasing
Increasing(e) == \A k \in 1..(Len(e) - 1) : e[k] < e[k + 1]

\* a model of the schema refused the object it was given
ValidationError == [nodetype |-> "ValidationError"]

\* MultiBinning.parse_obj: the edges of every axis must increase and the
\* content must have one value for every bin; flow "0.0" is read as the
\* number 0.0
MultiBinning_parse_obj(obj) ==
    IF \E k \in 1..Len(obj.edges) : ~Increasing(obj.edges[k])
    THEN ValidationError
    ELSE IF Len(obj.content) # (Len(obj.edges[1]) - 1) * (Len(obj.edges[2]) - 1)
    THEN ValidationError
    ELSE [nodetype |-> obj.nodetype, inputs |-> obj.inputs, edges |-> obj.edges,
          content |-> obj.content, flow |-> 0]

\* get_content has logged "Failed to process histogram" and left with
\* sys.exit(1)
ProcessFailed == [nodetype |-> "process_failed"]

\* variant: the values are written with the X index running fastest
get_content_x_fastest(file, histogram_name) ==
    LET obj == file_getitem(file, histogram_name)
    IN IF ~InheritsFromTH1(obj) THEN ProcessFailed
       ELSE LET histogram == obj.h
                x_edges_list == histogram.x_edges
                y_edges_list == histogram.y_edges
                values == [k \in 1..(NBinsX(histogram) * NBinsY(histogram)) |->
                              histogram.content[<<((k - 1) % NBinsX(histogram)) + 1,
                                                  ((k - 1) \div NBinsX(histogram)) + 1>>]]
                multi_binning ==
                    MultiBinning_parse_obj(
                        [inputs |-> <<"eta", "phi">>, nodetype |-> "multibinning",
                         edges |-> <<x_edges_list, y_edges_list>>,
                         content |-> values, flow |-> "0.0"])
            IN IF multi_binning.nodetype = "ValidationError" THEN ProcessFailed
               ELSE multi_binning

\* get_content: file[histogram_name].to_hist() (an object that is not a
\* histogram has no to_hist), the edges of the two axes, the flat values, and
\* MultiBinning.parse_obj of them; every exception is logged and ends the
\* process
get_content(file, histogram_name) ==
    LET obj == file_getitem(file, histogram_name)
    IN IF ~InheritsFromTH1(obj) THEN ProcessFailed
       ELSE LET histogram == obj.h
                x_edges_list == histogram.x_edges
                y_edges_list == histogram.y_edges
                values == flatten(histogram)
                multi_binning ==
                    MultiBinning_parse_obj(
                        [inputs |-> <<"eta", "phi">>, nodetype |-> "multibinning",
                         edges |-> <<x_edges_list, y_edges_list>>,
                         content |-> values, flow |-> "0.0"])
            IN IF multi_binning.nodetype = "ValidationError" THEN ProcessFailed
               ELSE multi_binning

\* for hname in histogram_names: CategoryItem.parse_obj({"key": clean_hname,
\* "value": get_content(root_file, hname)})
category_content(file) ==
    LET names == histogram_names(file)
    IN [k \in 1..Len(names) |->
           [key |-> clean_hname(names[k]), value |-> get_content(file, names[k])]]

\* get_content ends the process for one of the names
ContentFails(file) ==
    \E k \in 1..Len(histogram_names(file)) :
        get_content(file, histogram_names(file)[k]).nodetype = "process_failed"

\* Category.parse_obj refuses a content in which a key comes twice
DuplicateKeys(content) ==
    \E i \in 1..Len(content) : \E j \in 1..Len(content) :
        i # j /\ content[i].key = content[j].key

\* the key of root_files: f"{p}_V1"
CorrectionName == "map_V1"

\* description, inputs and output: the metadata of the correction
description ==
    "These are the jet veto maps showing regions with an excess of jets (hot zones) and lack of jets (cold zones). Using the phi-symmetry of the CMS detector, these areas with detector and/or calibration issues can be pinpointed."

Variable(vname, vtype, text) == [name |-> vname, type |-> vtype, description |-> text]

inputs ==
    <<Variable("type", "string",
               "Name of the type of veto map. The recommended map for analyses is 'jetvetomap'."),
      Variable("eta", "real", "Jet eta"),
      Variable("phi", "real", "Jet phi")>>

output ==
    Variable("vetomaps", "real",
             "Non-zero value for (eta, phi) indicates that the region is vetoed.")

\* the description of the CorrectionSet, with list(root_files_dict.keys())
\* written out
set_description ==
    "These are the jet veto maps for ['map_V1']. The recommended veto maps to be applied to both data and MC for analysis is 'jetvetomap'."

\* the CorrectionSet: schema_version 2, its description and one Correction
\* made of version, name, description, inputs, output and, as data, the
\* Category of the items
correction_set(file) ==
    [schema_version |-> 2,
     description |-> set_description,
     corrections |->
         <<[name |-> CorrectionName, description |-> description, version |-> 1,
            inputs |-> inputs, output |-> output,
            data |-> [nodetype |-> "category", input |-> "type",
                      content |-> category_content(file)]]>>]

\* ------------------------------------------------------- the JSON document
\* the values of a JSON text: an object is a list of <<name, value>>, an
\* array a list of values, a number the characters it is written with
JsonObject(members) == [t |-> "object", v |-> members]
JsonArray(items) == [t |-> "array", v |-> items]
JsonString(str) == [t |-> "string", v |-> str]
JsonNumber(text) == [t |-> "number", v |-> text]

DigitChars == <<"0", "1", "2", "3", "4", "5", "6", "7", "8", "9">>

\* the decimal digits of a natural number
RECURSIVE digits(_)
digits(n) ==
    IF n < 10 THEN <<DigitChars[n + 1]>>
    ELSE Append(digits(n \div 10), DigitChars[(n % 10) + 1])

\* an int as JSON writes it
int_repr(n) == (IF n < 0 THEN <<"-">> ELSE <<>>) \o digits(Abs(n))

\* variant: the sign is not written
float_repr_unsigned(x) == digits(Abs(x)) \o <<".", "0">>

\* a float of integer value as JSON writes it: the sign, the digits, ".0"
float_repr(x) == int_repr(x) \o <<".", "0">>

\* a list of floats as a JSON array
dump_floats(list) ==
    JsonArray([k \in 1..Len(list) |-> JsonNumber(float_repr(list[k]))])

\* the fields set on a MultiBinning, in the order of the schema
dump_MultiBinning(node) ==
    JsonObject(<< <<"nodetype", JsonString(node.nodetype)>>,
                  <<"inputs", JsonArray([k \in 1..Len(node.inputs) |->
                                            JsonString(node.inputs[k])])>>,
                  <<"edges", JsonArray([k \in 1..Len(node.edges) |->
                                           dump_floats(node.edges[k])])>>,
                  <<"content", dump_floats(node.content)>>,
                  <<"flow", JsonNumber(float_repr(node.flow))>> >>)

dump_CategoryItem(item) ==
    JsonObject(<< <<"key", JsonString(item.key)>>,
                  <<"value", dump_MultiBinning(item.value)>> >>)

dump_Category(node) ==
    JsonObject(<< <<"nodetype", JsonString(node.nodetype)>>,
                  <<"input", JsonString(node.input)>>,
                  <<"content", JsonArray([k \in 1..Len(node.content) |->
                                             dump_CategoryItem(node.content[k])])>> >>)

\* a variable of the inputs or the output of a correction
dump_Variable(variable) ==
    JsonObject(<< <<"name", JsonString(variable.name)>>,
                  <<"type", JsonString(variable.type)>>,
                  <<"description", JsonString(variable.description)>> >>)

\* the fields set on a Correction, in the order of the schema
dump_Correction(correction) ==
    JsonObject(<< <<"name", JsonString(correction.name)>>,
                  <<"description", JsonString(correction.description)>>,
                  <<"version", JsonNumber(int_repr(correction.version))>>,
                  <<"inputs", JsonArray([k \in 1..Len(correction.inputs) |->
                                            dump_Variable(correction.inputs[k])])>>,
                  <<"output", dump_Variable(correction.output)>>,
                  <<"data", dump_Category(correction.data)>> >>)

\* correction_set.model_dump_json(exclude_unset=True, indent=2): every field
\* was set, so none is left out
model_dump_json(cset) ==
    JsonObject(<< <<"schema_version", JsonNumber(int_repr(cset.schema_version))>>,
                  <<"description", JsonString(cset.description)>>,
                  <<"corrections", JsonArray([k \in 1..Len(cset.corrections) |->
                                                 dump_Correction(cset.corrections[k])])>> >>)

\* the value of a run of digits, read from the left
RECURSIVE digits_value(_, _)
digits_value(text, acc) ==
    IF text = <<>> THEN acc
    ELSE digits_value(Tail(text),
                      10 * acc + (CHOOSE d \in 0..9 : DigitChars[d + 1] = Head(text)))

\* the number a JSON number stands for: an int when it has no ".", the
\* float of that value otherwise (fraction digits other than 0 are kept
\* apart)
json_number(text) ==
    LET negative == Head(text) = "-"
        body == IF negative THEN Tail(text) ELSE text
        dots == { k \in 1..Len(body) : body[k] = "." }
        whole == IF dots = {} THEN body
                 ELSE SubSeq(body, 1, (CHOOSE k \in dots : TRUE) - 1)
        fraction == IF dots = {} THEN <<>>
                    ELSE SubSeq(body, (CHOOSE k \in dots : TRUE) + 1, Len(body))
        magnitude == digits_value(whole, 0)
    IN IF digits_value(fraction, 0) = 0
       THEN IF negative THEN 0 - magnitude ELSE magnitude
       ELSE [negative |-> negative, whole |-> magnitude, fraction |-> fraction]

\* json.loads: an object becomes a dict (the last member of a name counts),
\* an array a list, a number its value, a string itself
RECURSIVE json_loads(_)
json_loads(node) ==
    IF node.t = "object"
    THEN [n \in { node.v[k][1] : k \in 1..Len(node.v) } |->
             LET last == CHOOSE k \in 1..Len(node.v) :
                             /\ node.v[k][1] = n
                             /\ \A j \in (k + 1)..Len(node.v) : node.v[j][1] # n
             IN json_loads(node.v[last][2])]
    ELSE IF node.t = "array"
    THEN [k \in 1..Len(node.v) |-> json_loads(node.v[k])]
    ELSE IF node.t = "number"
    THEN json_number(node.v)
    ELSE node.v

\* no file at a path
Absent == [t |-> "absent"]

\* gzip.open(compressed_filename, 'wb') with the lines of the JSON file, and
\* gzip.open(json_path, 'rt').read()
gzip_write(text) == [t |-> "gzip", v |-> text]
gzip_read(compressed) == compressed.v

\* the file root_to_json.py has produced, as load_json_map takes it:
\* jetvetomaps.json.gz, read through gzip, when the JSON was compressed, the
\* jetvetomaps.json left behind otherwise; json.loads of its text and
\* data.get("corrections", [])
produced_json(out) ==
    LET json_content == IF out.gz # Absent THEN gzip_read(out.gz) ELSE out.json
        data == json_loads(json_content)
    IN JsonDoc("ok", data.corrections)

\* the histograms of the files given to root_to_json.py; one holds the
\* negative value of a cold bin
ConvertGrids == {RefGrid, Grid(2, 2, "distinct"), Grid(1, 2, "distinct"),
                 Grid(2, 1, "distinct"),
                 [RefGrid EXCEPT !.content[<<1, 1>>] = -100]}

\* the output of root_to_json.py: whether the directory can be made,
\* whether jetvetomaps.json can be opened for writing, whether
\* jetvetomaps.json.gz can be written, whether jetvetomaps.json can be
\* removed; whether this run has written the JSON, whether it has written
\* the compressed file, and the two files
JsonOut(dir_ok, json_ok, gz_ok, rm_ok) ==
    [makeable |-> dir_ok, openable |-> json_ok, compressible |-> gz_ok,
     removable |-> rm_ok,
     created |-> FALSE, compressed |-> FALSE, json |-> Absent, gz |-> Absent]

\* the files given to root_to_json.py: no file, a file uproot cannot read, a
\* file without keys, a file with a trigs histogram only, files with two
\* histograms in each order of their keys, a file with an object that is not
\* a histogram, a file with two cycles of a histogram
ConvertFiles ==
    { NoFile, RootFile("unreadable", <<>>), RootDir(<<>>),
      RootDir(<<TKey(TrigsName, 1, TH2D(TrigsName, RefGrid))>>),
      RootDir(<<TKey(HistName, 1, TH2D(HistName, RefGrid)),
                TKey("note", 1, TObject("TNamed", "note", "note", NoTH2))>>),
      RootDir(<<TKey(HistName, 2, TH2D(HistName, RefGrid)),
                TKey(HistName, 1, TH2D(HistName, Grid(1, 1, "zero")))>>) }
    \cup { RootDir(o) :
             o \in UNION { KeyOrders({ TKey(HistName, 1, TH2D(HistName, g)),
                                       TKey(second, 1, TH2D(second, RefGrid)) }) :
                             g \in ConvertGrids, second \in {OtherName, TrigsName} } }

\* input of root_to_json.py: the directory, the JSON or the compressed file
\* may not be writable, the JSON may not be removable
ConvertCases ==
    { <<f, out>> :
        f \in ConvertFiles,
        out \in { JsonOut(TRUE, TRUE, TRUE, TRUE), JsonOut(FALSE, TRUE, TRUE, TRUE),
                  JsonOut(TRUE, FALSE, TRUE, TRUE), JsonOut(TRUE, TRUE, FALSE, TRUE),
                  JsonOut(TRUE, TRUE, TRUE, FALSE) } }

\* if not root_file_path.exists(): logging.error, sys.exit(1)
TjFileMissing ==
    /\ script = "root_to_json"
    /\ step = "open_input"
    /\ input_file.status = "nofile"
    /\ ToolFatal("file_not_found")
    /\ UNCHANGED <<script, input_file, output_file, regions, histos, hist, mask,
                   modified, ix, iy, removed_bins, open_files>>
    /\ UNCHANGED validation_vars

\* uproot.open raises: logging.error, continue; then no corrections:
\* logging.warning, continue
TjOpenFail ==
    /\ script = "root_to_json"
    /\ step = "open_input"
    /\ input_file.status = "unreadable"
    /\ messages' = messages \cup {"open_failed", "no_corrections"}
    /\ step' = "finish"
    /\ UNCHANGED <<script, input_file, output_file, regions, histos, hist, mask,
                   modified, ix, iy, removed_bins, open_files, error, exit_code>>
    /\ UNCHANGED validation_vars

\* if not histogram_names: logging.warning, continue; then no corrections
TjNoHistograms ==
    /\ script = "root_to_json"
    /\ step = "open_input"
    /\ input_file.status = "ok"
    /\ histogram_names(input_file) = <<>>
    /\ messages' = messages \cup {"no_histograms", "no_corrections"}
    /\ step' = "finish"
    /\ UNCHANGED <<script, input_file, output_file, regions, histos, hist, mask,
                   modified, ix, iy, removed_bins, open_files, error, exit_code>>
    /\ UNCHANGED validation_vars

\* get_content fails on one of the names: logging.error("Failed to process
\* histogram ..."), sys.exit(1)
TjGetContentFail ==
    /\ script = "root_to_json"
    /\ step = "open_input"
    /\ input_file.status = "ok"
    /\ histogram_names(input_file) # <<>>
    /\ ContentFails(input_file)
    /\ ToolFatal("process_failed")
    /\ UNCHANGED <<script, input_file, output_file, regions, histos, hist, mask,
                   modified, ix, iy, removed_bins, open_files>>
    /\ UNCHANGED validation_vars

\* Category.parse_obj raises on a key that comes twice, outside any try
TjDuplicateKeys ==
    /\ script = "root_to_json"
    /\ step = "open_input"
    /\ input_file.status = "ok"
    /\ histogram_names(input_file) # <<>>
    /\ ~ContentFails(input_file)
    /\ DuplicateKeys(category_content(input_file))
    /\ ToolRaise("ValidationError")
    /\ UNCHANGED <<script, input_file, output_file, regions, histos, hist, mask,
                   modified, ix, iy, removed_bins, open_files>>
    /\ UNCHANGED validation_vars

\* every histogram of the file becomes a CategoryItem of the correction
TjConvert ==
    /\ script = "root_to_json"
    /\ step = "open_input"
    /\ input_file.status = "ok"
    /\ histogram_names(input_file) # <<>>
    /\ ~ContentFails(input_file)
    /\ ~DuplicateKeys(category_content(input_file))
    /\ histos' = [n \in DOMAIN input_file.keys \ {TrigsName} |-> input_file.keys[n]]
    /\ step' = "write"
    /\ UNCHANGED <<script, input_file, output_file, regions, hist, mask,
                   modified, ix, iy, removed_bins, open_files, messages, error,
                   exit_code>>
    /\ UNCHANGED validation_vars

\* output_path.mkdir(parents=True, exist_ok=True) raises, outside any try
TjMkdirFail ==
    /\ script = "root_to_json"
    /\ step = "write"
    /\ ~output_file.makeable
    /\ ToolRaise("OSError")
    /\ UNCHANGED <<script, input_file, output_file, regions, histos, hist, mask,
                   modified, ix, iy, removed_bins, open_files>>
    /\ UNCHANGED validation_vars

\* writing the JSON raises: logging.error, continue
TjWriteFail ==
    /\ script = "root_to_json"
    /\ step = "write"
    /\ output_file.makeable
    /\ ~output_file.openable
    /\ messages' = messages \cup {"write_failed"}
    /\ step' = "finish"
    /\ UNCHANGED <<script, input_file, output_file, regions, histos, hist, mask,
                   modified, ix, iy, removed_bins, open_files, error, exit_code>>
    /\ UNCHANGED validation_vars

\* the JSON is written; compressing it raises: logging.error, continue; the
\* uncompressed JSON stays
TjCompressFail ==
    /\ script = "root_to_json"
    /\ step = "write"
    /\ output_file.makeable
    /\ output_file.openable
    /\ ~output_file.compressible
    /\ output_file' = [output_file EXCEPT
                          !.created = TRUE,
                          !.json = model_dump_json(correction_set(input_file))]
    /\ messages' = messages \cup {"json_written", "compress_failed"}
    /\ step' = "finish"
    /\ UNCHANGED <<script, input_file, regions, histos, hist, mask, modified,
                   ix, iy, removed_bins, open_files, error, exit_code>>
    /\ UNCHANGED validation_vars

\* the JSON is written and compressed; json_filename.unlink() raises inside
\* the try of the compression: logging.error("Failed to compress ..."),
\* continue; both files stay
TjUnlinkFail ==
    /\ script = "root_to_json"
    /\ step = "write"
    /\ output_file.makeable
    /\ output_file.openable
    /\ output_file.compressible
    /\ ~output_file.removable
    /\ output_file' = [output_file EXCEPT
                          !.created = TRUE, !.compressed = TRUE,
                          !.json = model_dump_json(correction_set(input_file)),
                          !.gz = gzip_write(model_dump_json(correction_set(input_file)))]
    /\ messages' = messages \cup {"json_written", "compress_failed"}
    /\ step' = "finish"
    /\ UNCHANGED <<script, input_file, regions, histos, hist, mask, modified,
                   ix, iy, removed_bins, open_files, error, exit_code>>
    /\ UNCHANGED validation_vars

\* the JSON is written, compressed and the uncompressed file removed
TjWriteOk ==
    /\ script = "root_to_json"
    /\ step = "write"
    /\ output_file.makeable
    /\ output_file.openable
    /\ output_file.compressible
    /\ output_file.removable
    /\ output_file' = [output_file EXCEPT
                          !.created = TRUE, !.compressed = TRUE,
                          !.gz = gzip_write(model_dump_json(correction_set(input_file))),
                          !.json = Absent]
    /\ messages' = messages \cup {"json_written"}
    /\ step' = "finish"
    /\ UNCHANGED <<script, input_file, regions, histos, hist, mask, modified,
                   ix, iy, removed_bins, open_files, error, exit_code>>
    /\ UNCHANGED validation_vars

\* logging.info("All veto maps have been converted to JSON successfully.");
\* the script ends with status 0
TjFinish ==
    /\ script = "root_to_json"
    /\ step = "finish"
    /\ messages' = messages \cup {"converted_successfully"}
    /\ exit_code' = 0
    /\ step' = "done"
    /\ UNCHANGED <<script, input_file, output_file, regions, histos, hist, mask,
                   modified, ix, iy, removed_bins, open_files, error>>
    /\ UNCHANGED validation_vars

\* ------------------------------------------------------- runs of the tools
ToolScripts == {"remove_coordinates", "remove_bpix_region", "plot_for_jerc_web",
                "overlay_veto_maps_new", "plot_jet_veto_map", "root_to_json",
                "json_json.load_json_map", "root_json.load_json_map"}

\* in a run of one of these scripts the validation state is not used
ValidationIdle ==
    /\ old_src = RefSource
    /\ new_src = RefSource
    /\ tolerance = 0
    /\ pc = "off"
    /\ old_hist = NoHist
    /\ new_hist = NoHist
    /\ idx = 0
    /\ differences = 0
    /\ reported = <<>>

ToolInit ==
    /\ script \in ToolScripts
    /\ ValidationIdle
    /\ error = "none"
    /\ exit_code = NoExit
    /\ script # "plot_jet_veto_map" => (step = "open_input" /\ histos = <<>>)
    /\ hist = NoTH2
    /\ mask = NoTH2
    /\ modified = NoTH2
    /\ ix = 0
    /\ iy = 0
    /\ removed_bins = 0
    /\ open_files = {}
    /\ messages = {}
    /\ \/ /\ script = "remove_coordinates"
          /\ \E c \in RemoveCoordinatesCases :
                /\ input_file = c[1]
                /\ \E prior \in PriorOutputs(c[1], {HistName}) :
                      output_file = OutFile(c[2], FALSE, prior)
                /\ regions = c[3]
       \/ /\ script = "remove_bpix_region"
          /\ \E c \in RemoveBpixCases :
                /\ input_file = c[1]
                /\ \E prior \in PriorOutputs(c[1], {removeFrom, tobeRemoved}) :
                      output_file = OutFile(c[2], FALSE, prior)
          /\ regions = <<>>
       \/ /\ script = "plot_for_jerc_web"
          /\ input_file \in PlotFiles \cup MaskedPlotFiles
          /\ output_file = OutFile(TRUE, FALSE, <<>>)
          /\ regions = <<>>
       \/ /\ script = "overlay_veto_maps_new"
          /\ input_file \in PlotFiles
          /\ output_file = OutFile(TRUE, FALSE, <<>>)
          /\ regions = <<>>
       \/ /\ script = "plot_jet_veto_map"
          /\ step = "loaded"
          /\ histos \in PlotDicts
          /\ input_file = NoFile
          /\ output_file = OutFile(TRUE, FALSE, <<>>)
          /\ regions = <<>>
       \/ /\ script \in {"json_json.load_json_map", "root_json.load_json_map"}
          /\ input_file \in JsonDocs
          /\ output_file = OutFile(TRUE, FALSE, <<>>)
          /\ regions = <<>>
       \/ /\ script = "root_to_json"
          /\ \E c \in ConvertCases :
                /\ input_file = c[1]
                /\ output_file = c[2]
          /\ regions = <<>>

ToolNext ==
    \/ RcOpenInputFail
    \/ RcOpenInputRaise
    \/ RcOpenOutputRaise
    \/ RbOpenInputRaise
    \/ RbOpenOutputRaise
    \/ TjMkdirFail
    \/ TjCompressFail
    \/ TjUnlinkFail
    \/ RcOpenInputOk
    \/ RcGetMissing
    \/ RcGetOk
    \/ RcZeroBin
    \/ RcKeepBin
    \/ RcOpenOutputFail
    \/ RcOpenOutputOk
    \/ RcCopyKeys
    \/ RcClose
    \/ RbOpenInputFail
    \/ RbOpenInputOk
    \/ RbGetBaseMissing
    \/ RbGetMaskMissing
    \/ RbGetOk
    \/ RbBinningMismatch
    \/ RbBinningOk
    \/ RbZeroBin
    \/ RbKeepBin
    \/ RbOpenOutputFail
    \/ RbOpenOutputOk
    \/ RbCopyKeys
    \/ RbClose
    \/ PjOpenFail
    \/ PjOpenRaise
    \/ PjOpenOk
    \/ PjGetMissing
    \/ PjGetOk
    \/ PjBuildMasks
    \/ PjDraw
    \/ OnFileNotFound
    \/ OnOpen
    \/ OnGetAll
    \/ OnSkip
    \/ OnPlot
    \/ PvPlot
    \/ LjLoadOk
    \/ LjLoadFail
    \/ TjFileMissing
    \/ TjOpenFail
    \/ TjNoHistograms
    \/ TjGetContentFail
    \/ TjDuplicateKeys
    \/ TjConvert
    \/ TjWriteFail
    \/ TjWriteOk
    \/ TjFinish

\* a run of one of the tools
ToolSpec == ToolInit /\ [][ToolNext]_vars

\* a run of any script of the repository
RunSpec == (Init \/ ToolInit) /\ [][Next \/ ToolNext]_vars

\* a tool run is over
ToolDone == step = "done"

\* ================================================================== claims

\* C1 (reflexivity): when both sources yield the same grid and the tolerance
\* is >= 0, compare_histograms raises no precondition error, counts no
\* differing cell, logs no bin, and the run can only exit with status 0.
C1_Reflexivity ==
    (BothLoaded /\ old_hist = new_hist /\ tolerance >= 0) =>
        /\ error = "none"
        /\ differences = 0
        /\ reported = <<>>
        /\ (Exited => exit_code = 0)

\* a grid with three non-zero bins was compared with itself at tolerance 0
C1_Witness ==
    /\ Returned
    /\ old_hist = new_hist
    /\ tolerance = 0
    /\ Len(old_hist.bin_contents) = 3
    /\ \A i \in 1..3 : old_hist.bin_contents[i] > 0
    /\ differences = 0

\* the X edges of the two loaded grids differ by more than the tolerance at
\* some common index
XEdgesDifferBeyond(tol) ==
    \E i \in 1..Len(old_hist.x_edges) :
        /\ i <= Len(new_hist.x_edges)
        /\ Abs(old_hist.x_edges[i] - new_hist.x_edges[i]) > tol

\* C2 (as claimed): if the X-edge arrays differ by more than the tolerance at
\* some index, the run never gets past the X-edge check: no cell is examined
\* and no count is returned.
C2_FailFastOnXEdges ==
    (BothLoaded /\ XEdgesDifferBeyond(tolerance)) =>
        pc \notin {"check_y", "check_bins", "loop", "main"} /\ ~Returned

\* C3: in every iteration of the loop the count goes up by one exactly when
\* abs(valuesB[i] - valuesA[i]) > tolerance (absolute and strict), and is left
\* alone otherwise.
C3_AbsoluteStrict ==
    [][ (pc = "loop" /\ idx < Len(old_hist.bin_contents)) =>
            IF Abs(new_hist.bin_contents[idx + 1] - old_hist.bin_contents[idx + 1])
                 > tolerance
            THEN differences' = differences + 1
            ELSE differences' = differences ]_vars

\* at tolerance 1 the loop has passed bins that differ by exactly 1, in both
\* directions, without counting them
C3_Witness ==
    /\ Returned
    /\ tolerance = 1
    /\ \E i \in 1..Len(old_hist.bin_contents) :
          new_hist.bin_contents[i] - old_hist.bin_contents[i] = 1
    /\ \E i \in 1..Len(old_hist.bin_contents) :
          new_hist.bin_contents[i] - old_hist.bin_contents[i] = -1
    /\ differences = 0

\* zero-based flat index of a logged bin
FlatIndex(r, nphi) == (r.eta_bin - 1) * nphi + (r.phi_bin - 1)

\* C4: when compare_histograms returns, the count is the number of flat
\* indices with abs(diff) > tolerance, and the logged bins are exactly those
\* indices, once each, in ascending flat-index order.
C4_CountAndOrder ==
    Returned =>
        LET d == DifferingIdx(old_hist.bin_contents, new_hist.bin_contents, tolerance) IN
        /\ differences = Len(d)
        /\ Len(reported) = Len(d)
        /\ \A k \in 1..Len(d) :
              /\ FlatIndex(reported[k], num_phi_bins(old_hist.y_edges)) = d[k]
              /\ reported[k].old_val = old_hist.bin_contents[d[k] + 1]
              /\ reported[k].new_val = new_hist.bin_contents[d[k] + 1]

\* a run returned with two differing bins around a bin that does not differ
C4_Witness ==
    /\ Returned
    /\ differences = 2
    /\ Len(old_hist.bin_contents) = 3
    /\ DifferingIdx(old_hist.bin_contents, new_hist.bin_contents, tolerance) = <<0, 2>>

\* C5 (as claimed): the index logged for a differing flat index i is the
\* zero-based pair (i // (Ny-1), i % (Ny-1)).
C5_ZeroBasedIndex ==
    InLoopOrAfter =>
        LET d == DifferingIdx(old_hist.bin_contents, new_hist.bin_contents, tolerance)
            nphi == num_phi_bins(old_hist.y_edges) IN
        \A k \in 1..Len(reported) :
            /\ reported[k].eta_bin = d[k] \div nphi
            /\ reported[k].phi_bin = d[k] % nphi

\* C5 (amended): the index logged for a differing flat index i is the
\* one-based pair (i // (Ny-1) + 1, i % (Ny-1) + 1).
C5_OneBasedIndex ==
    InLoopOrAfter =>
        LET d == DifferingIdx(old_hist.bin_contents, new_hist.bin_contents, tolerance)
            nphi == num_phi_bins(old_hist.y_edges) IN
        \A k \in 1..Len(reported) :
            /\ reported[k].eta_bin = (d[k] \div nphi) + 1
            /\ reported[k].phi_bin = (d[k] % nphi) + 1

\* Y edges [0,1,2]: the bin at flat index 2 differs and is logged as
\* (eta_bin=2, phi_bin=1)
C5_Witness ==
    /\ Returned
    /\ old_hist.y_edges = <<0, 1, 2>>
    /\ Len(old_hist.bin_contents) = 3
    /\ old_hist.bin_contents[3] # new_hist.bin_contents[3]
    /\ \E k \in 1..Len(reported) :
          reported[k].eta_bin = 2 /\ reported[k].phi_bin = 1

\* C6 (symmetry): for two grids with identical edges, the finished run and
\* compare_histograms with the arguments swapped end the same way, with the
\* same count and the same logged bin indices, and each logged difference is
\* the negation of the one logged in the other direction.
C6_Symmetry ==
    (BothLoaded /\ (Returned \/ Exited)
       /\ old_hist.x_edges = new_hist.x_edges
       /\ old_hist.y_edges = new_hist.y_edges) =>
        LET rev == compare_histograms(script, new_hist, old_hist, tolerance) IN
        /\ rev.outcome = (IF error = "none" THEN "returned" ELSE error)
        /\ rev.differences = differences
        /\ Len(rev.reported) = Len(reported)
        /\ \A k \in 1..Len(reported) :
              /\ rev.reported[k].eta_bin = reported[k].eta_bin
              /\ rev.reported[k].phi_bin = reported[k].phi_bin
              /\ rev.reported[k].diff = -reported[k].diff

\* a run over common edges returned with a positive and a negative difference
C6_Witness ==
    /\ Returned
    /\ old_hist.x_edges = new_hist.x_edges
    /\ old_hist.y_edges = new_hist.y_edges
    /\ \E k \in 1..Len(reported) : reported[k].diff > 0
    /\ \E k \in 1..Len(reported) : reported[k].diff < 0

\* C7 (as claimed): in every script the logged difference of a bin is
\* valuesB[i] - valuesA[i], second argument minus first.
C7_DiffIsSecondMinusFirst ==
    \A k \in 1..Len(reported) :
        reported[k].diff = reported[k].new_val - reported[k].old_val

\* the preconditions of compare as the specification states them: X edges
\* and Y edges pairwise equal within the tolerance, equal numbers of values
EdgesEqualWithin(a, b, tol) ==
    /\ Len(a) = Len(b)
    /\ \A i \in 1..Len(a) : Abs(a[i] - b[i]) <= tol

PreconditionsHold ==
    /\ EdgesEqualWithin(old_hist.x_edges, new_hist.x_edges, tolerance)
    /\ EdgesEqualWithin(old_hist.y_edges, new_hist.y_edges, tolerance)
    /\ Len(old_hist.bin_contents) = Len(new_hist.bin_contents)

NoCellExceeds ==
    DifferingIdx(old_hist.bin_contents, new_hist.bin_contents, tolerance) = <<>>

\* C8 (as claimed): the process exits with 0 if and only if both sources
\* loaded, all preconditions held and no cell exceeded the tolerance; every
\* other finished run exits with 1.
C8_ExitStatus ==
    Exited =>
        /\ exit_code \in {0, 1}
        /\ exit_code = 0 <=> (BothLoaded /\ PreconditionsHold /\ NoCellExceeds)

\* the first violated precondition in the order X edges, Y edges, bin count
FirstViolated ==
    IF ~EdgesEqualWithin(old_hist.x_edges, new_hist.x_edges, tolerance)
    THEN "x_edges_mismatch"
    ELSE IF ~EdgesEqualWithin(old_hist.y_edges, new_hist.y_edges, tolerance)
    THEN "y_edges_mismatch"
    ELSE IF Len(old_hist.bin_contents) # Len(new_hist.bin_contents)
    THEN "num_bins_mismatch"
    ELSE "none"

\* the errors that point at an item: the logged mismatch, or the exception
\* raised by the check of that item
ErrorsNaming(item) ==
    IF item = "x_edges_mismatch" THEN {"x_edges_mismatch", "x_edges_ValueError"}
    ELSE IF item = "y_edges_mismatch" THEN {"y_edges_mismatch", "y_edges_ValueError"}
    ELSE {item}

\* C9 (as claimed): a precondition violation ends the run with the error
\* that names the first violated item in the order X edges, Y edges, number
\* of bins.
C9_FirstViolationReported ==
    (BothLoaded /\ (InLoopOrAfter \/ Exited) /\ FirstViolated # "none") =>
        Exited /\ error \in ErrorsNaming(FirstViolated)

\* C10 (as claimed): if the two grids disagree in the number of X edges, of
\* Y edges or of bin values, the run never enters the per-cell loop and never
\* exits with 0.
C10_StructuralMismatchFatal ==
    (BothLoaded /\ (\/ Len(old_hist.x_edges) # Len(new_hist.x_edges)
                    \/ Len(old_hist.y_edges) # Len(new_hist.y_edges)
                    \/ Len(old_hist.bin_contents) # Len(new_hist.bin_contents))) =>
        /\ pc \notin {"loop", "main"}
        /\ exit_code # 0

\* C11 (as claimed): a content mismatch is not fatal: a run that got past the
\* preconditions and ended with a non-zero count has examined every flat
\* index and ended through the summary of compare_histograms, with no error.
C11_MismatchesAccumulated ==
    (BothLoaded /\ Exited /\ differences > 0) =>
        /\ idx = Len(old_hist.bin_contents)
        /\ error = "none"

\* the requested file does not exist, or the named map is not in it; for a
\* JSON map, also when the entry with the key is not a multibinning node
Missing(src) == src.status \in {"nofile", "nomap", "not_multibinning"}

\* the histograms that a region-removal script asks its input file for
Requested(s) ==
    IF s = "remove_coordinates" THEN {HistName}
    ELSE IF s = "remove_bpix_region" THEN {removeFrom, tobeRemoved}
    ELSE {}

\* the input file of a region-removal run is missing, or lacks a histogram
\* that the script asks for
MissingInput ==
    /\ script \in {"remove_coordinates", "remove_bpix_region"}
    /\ (input_file.status = "nofile"
        \/ Requested(script) \ DOMAIN input_file.keys # {})

\* C12: in the validation and region-removal scripts a missing input file or
\* a missing histogram/map (a JSON entry with the key but another nodetype
\* included) is fatal: the run never gets to a comparison, a zeroing or an
\* output file, and when it is over the exit status is 1 and a message was
\* printed: the error line of the script or, where TFile.Open raised, the
\* traceback of the OSError.
C12_MissingResourceFatal ==
    /\ (pc # "off" /\ (Missing(old_src) \/ (old_hist.loaded /\ Missing(new_src)))) =>
          /\ pc \in {"load_first", "load_second", "exited"}
          /\ differences = 0
          /\ reported = <<>>
          /\ Exited => (exit_code = 1 /\ error = "load_error")
    /\ MissingInput =>
          /\ step \in {"open_input", "get", "done"}
          /\ modified = NoTH2
          /\ ~output_file.created
          /\ ToolDone => /\ exit_code = 1
                         /\ error \in {"cannot_open_input", "hist_not_found",
                                       "mask_not_found", "OSError"}
                         /\ error # "OSError" => error \in messages
                         /\ "written_successfully" \notin messages

\* validate_json_json ended on a second map whose entry has the requested
\* key but is not a multibinning node
C12_Witness ==
    /\ Exited
    /\ script = "json_json"
    /\ old_hist.loaded
    /\ new_src.status = "not_multibinning"
    /\ exit_code = 1

\* the messages that report a file or histogram that could not be found or
\* opened, or an output that could not be written
FailureMessages ==
    {"cannot_open_input", "hist_not_found", "mask_not_found",
     "cannot_create_output", "IOError", "KeyError", "file_not_found",
     "open_failed", "process_failed", "write_failed", "compress_failed"}

SuccessMessages == {"written_successfully", "converted_successfully"}

\* C13 (as claimed): in every script, a run that reported a missing or
\* unreadable input file or histogram, or an output it could not write, ends
\* with a non-zero exit status and without a success message.
C13_FailureEndsNonZero ==
    /\ (Exited /\ error = "load_error") => exit_code = 1
    /\ (ToolDone /\ messages \cap FailureMessages # {}) =>
          /\ exit_code # 0
          /\ messages \cap SuccessMessages = {}

\* len(values) == (len(edges_x) - 1) * (len(edges_y) - 1)
GridShaped(h) ==
    Len(h.bin_contents) = (Len(h.x_edges) - 1) * (Len(h.y_edges) - 1)

\* C14 (as claimed): every grid a loader returned satisfies the grid
\* invariant, so that a source whose content length does not match its edges
\* never gets to exit 0, and every logged bin lies inside the grid.
C14_GridInvariant ==
    /\ old_hist.loaded => GridShaped(old_hist)
    /\ new_hist.loaded => GridShaped(new_hist)
    /\ \A k \in 1..Len(reported) :
          /\ reported[k].eta_bin \in 1..(Len(old_hist.x_edges) - 1)
          /\ reported[k].phi_bin \in 1..(Len(old_hist.y_edges) - 1)

\* ------------------------------------------------ claims on region removal
\* the per-bin loop of a region-removal run has gone through every bin
LoopDone ==
    \/ step \in {"copy", "close"}
    \/ (step = "loop" /\ ix > NBinsX(hist))
    \/ (step = "done" /\ error \in {"none", "cannot_create_output"})

\* the centre of bin b lies strictly inside region r on all four sides
StrictlyInside(h, b, r) ==
    /\ r.eta_min < GetBinCenter(h.x_edges, b[1])
    /\ GetBinCenter(h.x_edges, b[1]) < r.eta_max
    /\ r.phi_min < GetBinCenter(h.y_edges, b[2])
    /\ GetBinCenter(h.y_edges, b[2]) < r.phi_max

InsideSomeRegion(h, b) == \E k \in 1..Len(regions) : StrictlyInside(h, b, regions[k])

\* C15: when remove_regions has gone through the bins, a bin of the result
\* holds 0 if its centre is strictly inside at least one region, and a bin
\* that held a non-zero value holds 0 only if its centre is strictly inside
\* a region; a centre exactly on a region boundary is not inside.
C15_StrictMembership ==
    (script = "remove_coordinates" /\ LoopDone) =>
        \A b \in Bins(hist) :
            /\ InsideSomeRegion(hist, b) => modified.content[b] = 0
            /\ (hist.content[b] # 0 /\ modified.content[b] = 0)
                  => InsideSomeRegion(hist, b)

\* 2x2 bins with centres 1 and 3 and the region (1, 4, 0, 4): the bins with
\* eta centre 3 are zeroed, those with eta centre 1 (on eta_min) are kept
C15_Witness ==
    /\ script = "remove_coordinates"
    /\ LoopDone
    /\ regions = <<Region(1, 4, 0, 4)>>
    /\ hist = Grid(2, 2, "distinct")
    /\ modified.content[<<1, 1>>] = 11
    /\ modified.content[<<1, 2>>] = 12
    /\ modified.content[<<2, 1>>] = 0
    /\ modified.content[<<2, 2>>] = 0

\* the bins that the loop has already gone through
Visited(h) ==
    { b \in Bins(h) : b[1] < ix \/ (b[1] = ix /\ b[2] < iy) }

\* C16: the first matching region wins: removed_bins is at every point of
\* the loop the number of visited bins strictly inside the union of the
\* regions, each counted once however many regions contain it.
C16_EachBinCountedOnce ==
    (script = "remove_coordinates" /\ (step = "loop" \/ LoopDone)) =>
        removed_bins = Cardinality({ b \in Visited(hist) : InsideSomeRegion(hist, b) })

\* two overlapping regions: the bin with centre (1, 1) is inside both, and
\* the four bins of the grid are counted as four
C16_Witness ==
    /\ script = "remove_coordinates"
    /\ LoopDone
    /\ regions = <<Region(0, 4, 0, 4), Region(0, 2, 0, 2)>>
    /\ NBinsX(hist) = 2
    /\ NBinsY(hist) = 2
    /\ removed_bins = 4

\* C17: remove_regions works on a clone: the histogram of the input file
\* keeps all its values, the bin edges of the result are those of the input,
\* and every bin whose centre is not strictly inside a region keeps its value.
C17_OnlyRegionBinsChange ==
    (script = "remove_coordinates" /\ (step = "loop" \/ LoopDone)) =>
        /\ hist = input_file.keys[HistName]
        /\ modified.x_edges = hist.x_edges
        /\ modified.y_edges = hist.y_edges
        /\ \A b \in Bins(hist) :
              ~InsideSomeRegion(hist, b) => modified.content[b] = hist.content[b]

\* a finished run that zeroed one bin of a 2x2 histogram and kept three
C17_Witness ==
    /\ script = "remove_coordinates"
    /\ ToolDone
    /\ exit_code = 0
    /\ hist = Grid(2, 2, "distinct")
    /\ removed_bins = 1
    /\ modified.content[<<1, 1>>] = 0
    /\ modified.content[<<2, 2>>] = 22
    /\ Get(output_file.keys, HistName).h = modified

\* C18: remove_bpix_region, for two histograms with equal numbers of bins:
\* after the loop a bin holds 0 where the mask is > 0 and the base value
\* where the mask is 0, and the base histogram is as it is in the input file.
C18_MaskSubtraction ==
    (script = "remove_bpix_region" /\ step \in {"check", "loop", "copy", "close", "done"}
       /\ hist # NoTH2) =>
        /\ hist = input_file.keys[removeFrom]
        /\ LoopDone =>
              \A b \in Bins(hist) :
                  /\ mask.content[b] > 0 => modified.content[b] = 0
                  /\ mask.content[b] = 0 => modified.content[b] = hist.content[b]

\* a finished run over 2x2 bins: the mask is 100 in bin (1, 1) and 0
\* elsewhere, the base is non-zero everywhere
C18_Witness ==
    /\ script = "remove_bpix_region"
    /\ ToolDone
    /\ exit_code = 0
    /\ hist = Grid(2, 2, "distinct")
    /\ mask.content[<<1, 1>>] = 100
    /\ mask.content[<<2, 2>>] = 0
    /\ modified.content[<<1, 1>>] = 0
    /\ modified.content[<<2, 2>>] = 22

\* the two histograms of the input file differ in the number of X or Y bins
BinningDiffers ==
    /\ script = "remove_bpix_region"
    /\ input_file.status = "ok"
    /\ {removeFrom, tobeRemoved} \subseteq DOMAIN input_file.keys
    /\ \/ NBinsX(input_file.keys[removeFrom]) # NBinsX(input_file.keys[tobeRemoved])
       \/ NBinsY(input_file.keys[removeFrom]) # NBinsY(input_file.keys[tobeRemoved])

\* C19: if the base and the mask differ in the number of X or Y bins, the
\* run never enters the loop, zeroes no bin, creates no output file, and
\* ends with the binning error and exit status 1.
C19_BinningMismatchFatal ==
    BinningDiffers =>
        /\ step \in {"open_input", "get", "check", "done"}
        /\ modified \in {NoTH2, input_file.keys[removeFrom]}
        /\ ~output_file.created
        /\ ToolDone => (exit_code = 1 /\ "different_binning" \in messages)

\* a run ended on histograms with equal X bins and different Y bins
C19_Witness ==
    /\ BinningDiffers
    /\ ToolDone
    /\ NBinsX(hist) = NBinsX(mask)
    /\ NBinsY(hist) # NBinsY(mask)
    /\ exit_code = 1

\* C20 (as claimed): when an operation that opened files is over (load_histos
\* has returned or raised, the script has ended), every file it opened has
\* been closed.
C20_FilesClosed ==
    step \in {"loaded", "finish", "done"} => open_files = {}

\* ------------------------------------------- further claims on validation
\* the runs of the validation scripts, for the claims on compare_histograms
\* as a function of its arguments
CompareSpec == Init /\ [][Next]_vars

\* C21: compare_histograms has no effect on its inputs and is a function of
\* them: at every point of a run the two grids hold the arrays that the
\* loaders read from the sources, and the outcome, the count and the logged
\* bins of the run are those that the two grids and the tolerance determine.
C21_NoSideEffectDeterministic ==
    /\ old_hist.loaded => old_hist = LoadFirst(script, old_src)
    /\ new_hist.loaded => new_hist = LoadSecond(script, new_src)
    /\ RunIsCompare

\* compare_histograms returned after logging two differing bins
C21_Witness ==
    /\ Returned
    /\ differences = 2
    /\ Len(reported) = 2
    /\ old_hist = LoadFirst(script, old_src)

\* how a call of compare_histograms ends: the outcome, the count and the
\* bin indices logged
Ending(r) ==
    <<r.outcome, r.differences,
      [k \in 1..Len(r.reported) |-> <<r.reported[k].eta_bin, r.reported[k].phi_bin>>]>>

\* how the call of compare_histograms of this run has ended
RunEnding ==
    Ending([outcome |-> IF pc = "main" THEN "returned" ELSE error,
            differences |-> differences, reported |-> reported])

\* C30: on the same two grids and the same tolerance the compare_histograms
\* of validate_json_json, of validate_root_root and of validate_root_json
\* end the same way (returned, or the same failed precondition), with the
\* same count and the same logged bin indices: where the call of a run has
\* ended, each of the three, given the grids and the tolerance of the run,
\* ends as the run did.
C30_ImplementationsEquivalent ==
    (pc = "main" \/ (Exited /\ BothLoaded /\ error # "none")) =>
        /\ Ending(compare_histograms_json_json(old_hist, new_hist, tolerance)) = RunEnding
        /\ Ending(compare_histograms_root_root(old_hist, new_hist, tolerance)) = RunEnding
        /\ Ending(compare_histograms_root_json(old_hist, new_hist, tolerance)) = RunEnding

\* two grids whose first and third bins differ, in opposite directions: the
\* three implementations count 2, and validate_root_json logs the opposite
\* differences to those that validate_json_json logs
C30_Witness ==
    /\ Returned
    /\ differences = 2
    /\ LET rj == compare_histograms_root_json(old_hist, new_hist, tolerance)
           jj == compare_histograms_json_json(old_hist, new_hist, tolerance)
           rr == compare_histograms_root_root(old_hist, new_hist, tolerance) IN
       /\ rr.differences = 2
       /\ rj.differences = 2
       /\ jj.reported[1].diff > 0
       /\ jj.reported[2].diff < 0
       /\ rj.reported[1].diff = -jj.reported[1].diff
       /\ rj.reported[2].diff = -jj.reported[2].diff

\* --------------------------------------- further claims on region removal
\* the histogram that a region-removal script replaces
Target(s) == IF s = "remove_coordinates" THEN HistName ELSE removeFrom

\* C23 (as claimed): after a successful run of remove_regions or
\* remove_bpix_region the output file holds one object for every key of the
\* input file, under the name of the key; the target histogram is written
\* exactly once, as the modified clone; every other object is the one of
\* the input.
C23_CopyThrough ==
    (script \in {"remove_coordinates", "remove_bpix_region"}
       /\ ToolDone /\ exit_code = 0) =>
        LET inp == input_file.list
            out == output_file.keys
        IN /\ Len(out) = Len(inp)
           /\ \A k \in 1..Len(inp) :
                 Cardinality(KeysNamed(out, inp[k].name))
                     = Cardinality(KeysNamed(inp, inp[k].name))
           /\ Cardinality(KeysNamed(out, Target(script))) = 1
           /\ Get(out, Target(script)).h = modified
           /\ \A k \in 1..Len(inp) :
                 inp[k].name # Target(script) =>
                     \E j \in KeysNamed(out, inp[k].name) : out[j].obj = inp[k].obj

\* an input file with one key for every name, every object named like its
\* key
PlainFile(file) ==
    \A k \in 1..Len(file.list) :
        /\ file.list[k].obj.name = file.list[k].name
        /\ Cardinality(KeysNamed(file.list, file.list[k].name)) = 1

\* the copy-through of C23 for a plain input file: one key for every key of
\* the input, under its name; the target holds the modified histogram, every
\* other object is the one of the input
C23_PlainFileCopyThrough ==
    (script \in {"remove_coordinates", "remove_bpix_region"}
       /\ ToolDone /\ exit_code = 0 /\ PlainFile(input_file)) =>
        LET inp == input_file.list
            out == output_file.keys
        IN /\ Len(out) = Len(inp)
           /\ \A k \in 1..Len(inp) :
                 /\ Cardinality(KeysNamed(out, inp[k].name)) = 1
                 /\ IF inp[k].name = Target(script)
                    THEN Get(out, inp[k].name).h = modified
                    ELSE Get(out, inp[k].name) = inp[k].obj

\* a successful run of remove_bpix_region on a file whose base histogram is
\* named otherwise than its key: the modified histogram is not in the output
C23_RenamedTargetLost ==
    /\ script = "remove_bpix_region"
    /\ ToolDone /\ exit_code = 0
    /\ input_file = BpixFileWithRenamed
    /\ KeysNamed(output_file.keys, removeFrom) = {}
    /\ Get(output_file.keys, "h_cold").h = RefGrid
    /\ modified # RefGrid

\* a successful run of remove_regions on a file with two cycles of the
\* histogram: the modified histogram is written once for each of them
C23_TargetWrittenTwice ==
    /\ script = "remove_coordinates"
    /\ ToolDone /\ exit_code = 0
    /\ input_file = FileWithCycles
    /\ Cardinality(KeysNamed(output_file.keys, HistName)) = 2
    /\ \A k \in KeysNamed(output_file.keys, HistName) :
          output_file.keys[k].obj.h = modified

\* C27: in remove_bpix_region a bin whose mask value is negative keeps its
\* base value in the result, as a bin with mask value 0 does.
C27_NegativeMaskKeeps ==
    (script = "remove_bpix_region" /\ LoopDone) =>
        \A b \in Bins(hist) :
            mask.content[b] < 0 => modified.content[b] = hist.content[b]

\* a finished run whose mask holds -100 in bin (1, 1) over a non-zero base
C27_Witness ==
    /\ script = "remove_bpix_region"
    /\ ToolDone
    /\ exit_code = 0
    /\ mask.content[<<1, 1>>] = -100
    /\ hist.content[<<1, 1>>] = 100
    /\ modified.content[<<1, 1>>] = 100

\* C28: the masking operations are idempotent: the result of the loop is
\* what the operation gives on the input, and the operation applied to that
\* result, with the same regions or the same mask, gives the result again.
C28_Idempotent ==
    /\ (script = "remove_coordinates" /\ LoopDone) =>
          /\ modified = zero_regions(hist, regions)
          /\ zero_regions(modified, regions) = modified
    /\ (script = "remove_bpix_region" /\ LoopDone) =>
          /\ modified = zero_masked(hist, mask)
          /\ zero_masked(modified, mask) = modified

\* a finished run of remove_coordinates that zeroed some non-zero bins and
\* kept others
C28_Witness ==
    /\ script = "remove_coordinates"
    /\ LoopDone
    /\ hist = Grid(2, 2, "distinct")
    /\ removed_bins = 2
    /\ modified # hist

\* the histograms that the script asks for have been found and, in
\* remove_bpix_region, have the same binning
ReadyForOutput ==
    /\ "input" \in open_files
    /\ error = "none"
    /\ hist # NoTH2
    /\ script = "remove_bpix_region" =>
          /\ mask # NoTH2
          /\ NBinsX(hist) = NBinsX(mask)
          /\ NBinsY(hist) = NBinsY(mask)

\* C29: in remove_regions and remove_bpix_region the file at the output path
\* changes (is created, truncated or written) only in a step taken when the
\* input is open, the histograms were found and the binning check passed;
\* every other step, every error exit included, leaves it as it was.
C29_OutputUntouchedOnEarlyFailure ==
    [][ (script \in {"remove_coordinates", "remove_bpix_region"}
           /\ output_file' # output_file)
          => (ReadyForOutput /\ step \in {"loop", "copy"} /\ exit_code' # 1) ]_vars

\* a run ended on a missing histogram and the older file at the output path
\* is as it was
C29_Witness ==
    /\ script \in {"remove_coordinates", "remove_bpix_region"}
    /\ ToolDone
    /\ error = "hist_not_found"
    /\ output_file = OutFile(TRUE, FALSE, ExistingOutput)

\* ------------------------------------------------- claims on build_masks
\* build_masks has returned
MasksBuilt == script = "plot_for_jerc_web" /\ "hotMask" \in DOMAIN histos

\* C26: build_masks produces disjoint masks: in no bin are hotMask and
\* coldMask both 1; a mask bin is 1 only where the master map is non-zero;
\* a bin non-zero in master, hot and cold is in hotMask only; and a bin
\* non-zero in master but zero in hot and in cold is in neither mask.
C26_MasksDisjoint ==
    MasksBuilt =>
        LET master == histos["jetvetomap"]
            hot == histos["jetvetomap_hot"]
            cold == histos["jetvetomap_cold"]
            hotMask == histos["hotMask"]
            coldMask == histos["coldMask"]
        IN \A b \in Bins(master) :
              /\ hotMask.content[b] \in {0, 1}
              /\ coldMask.content[b] \in {0, 1}
              /\ ~(hotMask.content[b] = 1 /\ coldMask.content[b] = 1)
              /\ (hotMask.content[b] = 1 \/ coldMask.content[b] = 1)
                    => master.content[b] # 0
              /\ (master.content[b] # 0 /\ hot.content[b] # 0 /\ cold.content[b] # 0)
                    => (hotMask.content[b] = 1 /\ coldMask.content[b] = 0)
              /\ (master.content[b] # 0 /\ hot.content[b] = 0 /\ cold.content[b] = 0)
                    => (hotMask.content[b] = 0 /\ coldMask.content[b] = 0)

\* masks built from a bin that is non-zero in master, hot and cold, next to a
\* bin that is non-zero in master and in cold only
C26_Witness ==
    /\ MasksBuilt
    /\ histos["jetvetomap"].content = (<<1, 1>> :> 100) @@ (<<1, 2>> :> 100)
    /\ histos["jetvetomap_hot"].content = (<<1, 1>> :> 100) @@ (<<1, 2>> :> 0)
    /\ histos["jetvetomap_cold"].content = (<<1, 1>> :> -100) @@ (<<1, 2>> :> -100)
    /\ histos["hotMask"].content = (<<1, 1>> :> 1) @@ (<<1, 2>> :> 0)
    /\ histos["coldMask"].content = (<<1, 1>> :> 0) @@ (<<1, 2>> :> 1)

\* --------------------------------------------- claims on the overlay plots
\* the replacement pass of plot_jet_veto_map is taken in this step
ReplacementPass ==
    /\ script \in {"overlay_veto_maps_new", "plot_jet_veto_map"}
    /\ step = "loaded"
    /\ step' = "done"
    /\ DOMAIN histos # {}

\* the content, in tenths, that the claim gives for a bin that held val
claimed_content(key, val) ==
    IF val = 100
    THEN (IF key \in {"hot", "cold", "all"} THEN COLOR_RANGE_hot
          ELSE COLOR_VALUES(key))
    ELSE IF val = -100 THEN 1 ELSE 10 * val

\* C22 (as claimed): after the replacement pass over a plotted histogram a
\* bin that held 100 holds the hot value 10 in a hot, cold or all map and the
\* region's own colour value in a region map (7.5 for bpix); a bin that held
\* -100 holds 0.1; every other bin is unchanged.
C22_SentinelReplacement ==
    [][ ReplacementPass =>
          \A n \in DOMAIN histos :
             KeyOf(n) \notin SKIP_HISTS =>
                \A b \in Bins(histos[n]) :
                   histos'[n].content[b] =
                       claimed_content(KeyOf(n), histos[n].content[b]) ]_vars

\* ------------------------------------------------- claims on the conversion
\* root_to_json has written its JSON
JsonWritten == script = "root_to_json" /\ output_file.created

\* main of validate_root_json: sys.exit(0 if differences == 0 else 1)
main_exit_status(count) == IF count = 0 THEN 0 ELSE 1

\* C24: for every histogram that root_to_json converts, the JSON entry holds
\* the X edges, the Y edges and the flat values, in the same order, that
\* load_root_histogram reads from the ROOT file, so validate_root_json on the
\* ROOT file and the produced JSON finds 0 differing bins and exits with 0.
C24_ConversionRoundTrip ==
    JsonWritten =>
        \A n \in DOMAIN histos :
            LET root == LoadFirst("root_json", read_root(input_file, n))
                json == LoadSecond("root_json", read_json(produced_json(output_file), n))
            IN /\ root.loaded
               /\ json.loaded
               /\ json.x_edges = root.x_edges
               /\ json.y_edges = root.y_edges
               /\ json.bin_contents = root.bin_contents
               /\ \A tol \in Tolerances :
                     LET r == compare_histograms_root_json(root, json, tol)
                     IN /\ r.outcome = "returned"
                        /\ r.differences = 0
                        /\ main_exit_status(r.differences) = 0

\* the compressed JSON written for a file with a 2 x 2 histogram of distinct
\* values, stored after a second histogram: its text holds the values as
\* "11.0", "12.0", "21.0", "22.0" and load_json_map reads them back
C24_Witness ==
    /\ JsonWritten
    /\ file_keys(input_file) = << <<OtherName, 1>>, <<HistName, 1>> >>
    /\ step = "done"
    /\ exit_code = 0
    /\ input_file.keys[HistName] = Grid(2, 2, "distinct")
    /\ output_file.compressed
    /\ output_file.json = Absent
    /\ LET items == gzip_read(output_file.gz).v[3][2].v[1].v[6][2].v[3][2].v
       IN /\ gzip_read(output_file.gz).v[2] = <<"description", JsonString(set_description)>>
          /\ Len(items) = 2
          /\ items[2].v[1][2] = JsonString(HistName)
          /\ items[2].v[2][2].v[4][2].v[3] = JsonNumber(<<"2", "1", ".", "0">>)
    /\ read_json(produced_json(output_file), HistName).bin_contents = <<11, 12, 21, 22>>
    /\ read_json(produced_json(output_file), OtherName).status = "ok"

\* ---------------------------------------------------- claims on the lookup
\* positions <<i, j>> of the items of a document that pass the three tests:
\* data nodetype category, key map_name, value nodetype multibinning
Qualifying(doc) ==
    { p \in (1..Len(doc.corrections)) \X (1..2) :
        /\ doc.corrections[p[1]].data.nodetype = "category"
        /\ p[2] <= Len(doc.corrections[p[1]].data.content)
        /\ doc.corrections[p[1]].data.content[p[2]].key = MapName
        /\ doc.corrections[p[1]].data.content[p[2]].value.nodetype = "multibinning" }

\* the first of them in document order
FirstQualifying(doc) ==
    CHOOSE p \in Qualifying(doc) :
        \A q \in Qualifying(doc) :
            p[1] < q[1] \/ (p[1] = q[1] /\ p[2] <= q[2])

\* the arrays of a map can be returned: two edge arrays, and in
\* validate_json_json no empty array
Returnable(value, validator) ==
    /\ Len(value.edges) = 2
    /\ validator = "json_json" =>
          /\ value.edges[1] # <<>>
          /\ value.edges[2] # <<>>
          /\ value.content # <<>>

\* C25 (as claimed): load_json_map returns the first item, in document order
\* over the corrections and then over their content, whose correction data
\* nodetype is category, whose key is map_name and whose value nodetype is
\* multibinning; items failing a test are skipped without error; the
\* process exits with 1 when no item qualifies or there are no corrections.
C25_FirstQualifyingReturned ==
    (script \in LoadScripts /\ step = "done") =>
        IF input_file.status # "ok" \/ Qualifying(input_file) = {}
        THEN exit_code = 1 /\ ~new_hist.loaded
        ELSE LET p == FirstQualifying(input_file)
                 value == input_file.corrections[p[1]].data.content[p[2]].value
             IN /\ exit_code = NoExit
                /\ new_hist.loaded
                /\ new_hist = Hist(value.edges[1], value.edges[2], value.content)

\* C25: the outcome of load_json_map is fixed by the first item, in document
\* order over the corrections and then over their content, whose correction
\* data nodetype is category, whose key is map_name and whose value nodetype
\* is multibinning (items failing a test are skipped without error): its
\* arrays are returned when it has exactly two edge arrays (and, in
\* validate_json_json, no empty edge or content array), otherwise the
\* process exits with 1 whatever items follow; the process also exits with
\* 1 when no item qualifies or there are no corrections.
C25_MapLookup ==
    (script \in LoadScripts /\ step = "done") =>
        IF input_file.status # "ok" \/ Qualifying(input_file) = {}
        THEN exit_code = 1 /\ ~new_hist.loaded
        ELSE LET p == FirstQualifying(input_file)
                 value == input_file.corrections[p[1]].data.content[p[2]].value
             IN IF Returnable(value, ValidatorOf(script))
                THEN /\ exit_code = NoExit
                     /\ new_hist = Hist(value.edges[1], value.edges[2], value.content)
                ELSE exit_code = 1 /\ ~new_hist.loaded

\* the map returned from the second correction, after a correction that is
\* not a category and holds the key, and after an item with the key whose
\* value is not a multibinning node
C25_Witness ==
    /\ script \in LoadScripts
    /\ step = "done"
    /\ Len(input_file.corrections) = 2
    /\ input_file.corrections[1].data.nodetype = "binning"
    /\ input_file.corrections[1].data.content =
          <<CategoryItem(MapName, MultiBinning(<<<<0, 2>>, <<0, 2>>>>, <<1>>))>>
    /\ Qualifying(input_file) = {<<2, 1>>}
    /\ new_hist = Hist(<<0, 2>>, <<0, 2>>, <<2>>)

====
